---- MODULE Spec2Model ----
(***************************************************************************)
(* Model of the blink / eye state trackers of react-native-smart-camera.   *)
(*                                                                         *)
(*   Variant B: src/src/detection/blinkProcessor.ts                        *)
(*              processBlinkFromFaces / resetBlinkStates, module-level map *)
(*              blinkStates keyed by trackingId.                           *)
(*   Variant A: SmartCamera component (src/unnamed/part_006),              *)
(*              processBlink on the blinkState ref.                        *)
(*                                                                         *)
(* Probabilities are integers in percent (0.4 is 40); time is in           *)
(* milliseconds as returned by Date.now().  Each tracker's code is a       *)
(* function of its stored state, its arguments and the clock; an action    *)
(* applies it.  The observer variables record what a call was given and    *)
(* which events came out; no code reads them.  A definition named X_y is   *)
(* X with the fault y, used to show that a property depends on X.          *)
(***************************************************************************)
EXTENDS Integers, Sequences, FiniteSets, TLC

\* ------------------------------------------------------------------ bounds

\* Date.now() at the start of a run, the clock's step, and how many steps a
\* run takes.
Epoch == 1000
TickMs == 100
MaxTicks == 4

\* An optional field that is not set (leftEyeOpenProbability?: number, ...).
Undefined == -1

\* Eye-open probabilities (percent) the detector delivers in a run of the
\* variant-B tracker and of the SmartCamera tracker: values on each side of
\* and exactly on every threshold.
ProbsB == {10, 40, 60, 90}
ProbsA == {20, 30, 70, 90}

\* trackingId values of the first face.
TrackingIds == {0, 1}

\* debounceMs arguments: the default of processBlinkFromFaces and a shorter one.
DEFAULT_DEBOUNCE_MS == 300
DebounceChoices == {DEFAULT_DEBOUNCE_MS, 100}

VARIABLES
    component,        \* which tracker the application drives in this run
    clock,            \* Date.now()
    \* ---- variant B (blinkProcessor.ts)
    debounceMs,       \* the debounceMs argument the caller passes
    blinkStates,      \* Map<number, BlinkState>
    result,           \* what the last call returned (null after a reset)
    \* ---- observers of variant B
    lastCallB,        \* what the last call was given: kind of sample, key
    sawClosed,        \* keys that got a both-eyes-closed sample since fresh
    closedSinceOpen,  \* keys whose last closed sample has no open one after
    droppedB,         \* the key whose closure the last call met too early
    eventsAt,         \* per key, timestamps of the last two events since fresh
    freshStates,      \* a tracker created at the last reset, fed the same calls
    freshResult,
    scriptB,          \* progress through the sample script of the full cycle
    \* ---- variant A (SmartCamera)
    blinkDetection,   \* prop blinkDetection
    hasOnBlinkDetected, \* whether prop onBlinkDetected is given
    isMounted,        \* isMounted.current
    blinkState,       \* blinkState.current
    emitted,          \* the event the last call passed to onBlinkDetected
    \* ---- observers of variant A
    lastCallA,        \* what the last call was given and what it met
    emittedAt,        \* timestamps of the last two events passed on
    scriptA,          \* progress through the single-eye closure script
    prevSampleA,      \* the eye values of the last sample processBlink handled
    \* ---- the eye status hook (useBlinkDetection)
    hookEnabled,      \* option enabled
    eyeClosedThreshold, \* option eyeClosedThreshold, default applied
    hasOnEyeStatusChange, \* whether option onEyeStatusChange is given
    eyeStatus,        \* the eyeStatus state (null until a status is set)
    statusEmitted,    \* the status the last call passed to onEyeStatusChange
    \* ---- observers of the hook
    lastCallE,        \* what the last call was given
    \* ---- observer shared by the three consumers of face lists
    headOnly,         \* outcome of the last call had it got faces[0] alone
    \* ---- the face detector frame processor plugin (Android / iOS)
    platform,         \* which of the two plugins this is
    currentConfig,    \* currentConfig (the options last given)
    faceDetector,     \* the options the current FaceDetector was built with
    returned,         \* what the last callback returned
    logged,           \* the error the last callback logged, if any
    \* ---- observers of the plugin
    lastFrame,        \* what the last callback was given
    \* ---- the native module (SmartCameraModule) and its WebRTCFrameBridge
    isWebRTCInitialized, \* isWebRTCInitialized of the module
    webRTCBridge,     \* the fields of webRTCBridge
    moduleScopeActive, \* whether moduleScope is still active (Kotlin)
    startTask,        \* the Task of startWebRTCStream past its guard (Swift)
    webRTCState,      \* the last onWebRTCStateChange event sent
    \* ---- observers of the native module
    lastCallW,        \* the last call of the module and its outcome
    \* ---- the useWebRTC hook and its WebRTCManager
    manager,          \* the fields of managerRef.current
    connections,      \* the state of each RTCPeerConnection ever created
    localStream,      \* state localStream
    remoteStream,     \* state remoteStream
    peerConnection,   \* state peerConnection
    callState,        \* state callState
    isMountedRef,     \* isMountedRef.current
    hasOnCallStateChange, \* whether option onCallStateChange is given
    passedState,      \* the value last passed to onCallStateChange
    \* ---- observers of the hook
    changedR,         \* whether callState has changed since the mount
    closedR,          \* closePeerConnection ran and no createPeerConnection since
    lastCallR,        \* the last step of the hook
    \* ---- an object pool of createObjectPool
    pool,             \* the array pool
    maxSize,          \* the argument maxSize
    \* ---- observers of the pool
    heldObjects,      \* the objects the caller got and has not released
    lastCallO,        \* the last call of the pool
    \* ---- SmartCamera: the app state handling
    appState,         \* state appState
    isActive,         \* prop isActive
    isCameraActive,   \* state isCameraActive
    hasPermission,    \* hasPermission of useCameraPermission
    hasDevice,        \* whether useCameraDevice gives a device
    \* ---- observers of the app state handling
    lastCallL         \* what the last step was

varsA == <<blinkDetection, hasOnBlinkDetected, isMounted, blinkState, emitted,
           lastCallA, emittedAt, scriptA, prevSampleA>>
varsB == <<debounceMs, blinkStates, result, lastCallB, sawClosed,
           closedSinceOpen, droppedB, eventsAt,
           freshStates, freshResult, scriptB>>
varsE == <<hookEnabled, eyeClosedThreshold, hasOnEyeStatusChange, eyeStatus,
           statusEmitted, lastCallE>>
varsP == <<platform, currentConfig, faceDetector, returned, logged, lastFrame>>
varsW == <<isWebRTCInitialized, webRTCBridge, moduleScopeActive, startTask,
           webRTCState, lastCallW>>
varsR == <<manager, connections, localStream, remoteStream, peerConnection,
           callState, isMountedRef, hasOnCallStateChange, passedState,
           changedR, closedR, lastCallR>>
varsO == <<pool, maxSize, heldObjects, lastCallO>>
varsL == <<appState, isActive, isCameraActive, hasPermission, hasDevice,
           lastCallL>>
varsN == <<varsW, varsR, varsO, varsL>>
vars == <<component, clock, headOnly, varsB, varsA, varsE, varsP, varsN>>

\* ------------------------------------------------------------ data model

\* BlinkEvent | null
NoEvent == [isBlink |-> FALSE]
BlinkEvent(now, l, r, id) ==
    [isBlink |-> TRUE, timestamp |-> now, leftEyeOpen |-> l,
     rightEyeOpen |-> r, faceId |-> id]

\* A Face, reduced to the fields the trackers read.
Face(l, r, id) ==
    [leftEyeOpenProbability |-> l, rightEyeOpenProbability |-> r,
     trackingId |-> id]

FacesB ==
    {Face(l, r, id) : l \in ProbsB \cup {Undefined},
                      r \in ProbsB \cup {Undefined},
                      id \in TrackingIds \cup {Undefined}}

\* Faces the detector may list after the first one.
OtherFacesB == {Face(10, 10, 1), Face(90, 90, Undefined)}

\* The face lists a call may get: none, one face, or two faces.
PairFirstB == {Face(p, p, id) : p \in {10, 90}, id \in TrackingIds \cup {Undefined}}
FaceListsB ==
    {<< >>} \cup {<<f>> : f \in FacesB}
            \cup {<<f, g>> : f \in PairFirstB, g \in OtherFacesB}

\* ------------------------------------------------- variant B: the code

EYE_CLOSED_THRESHOLD == 40
EYE_OPEN_THRESHOLD == 60

\* Map keys: every trackingId, and 0.
Keys == TrackingIds \cup {0}

\* An entry the map does not hold / the entry created on first use.
NoState == [present |-> FALSE]
NewBlinkState ==
    [present |-> TRUE, wasEyesClosed |-> FALSE, lastBlinkTimestamp |-> 0]

EmptyMap == [k \in Keys |-> NoState]

\* const faceId = face.trackingId ?? 0
FaceId_single(face) == 0
FaceId(face) ==
    IF face.trackingId = Undefined THEN 0 ELSE face.trackingId

\* blinkStates.get(faceId), created when missing
GetOrCreate(states, faceId) ==
    IF states[faceId].present THEN states
    ELSE [states EXCEPT ![faceId] = NewBlinkState]

EyesClosed_either(l, r) ==
    l < EYE_CLOSED_THRESHOLD \/ r < EYE_CLOSED_THRESHOLD
EyesClosed(l, r) ==
    l < EYE_CLOSED_THRESHOLD /\ r < EYE_CLOSED_THRESHOLD

EyesOpen(l, r) ==
    l > EYE_OPEN_THRESHOLD /\ r > EYE_OPEN_THRESHOLD

IsBlink_noDebounce(state, eyesOpen, now, debounce) ==
    state.wasEyesClosed /\ eyesOpen
IsBlink_noCycle(state, eyesOpen, now, debounce) ==
    eyesOpen /\ (now - state.lastBlinkTimestamp) > debounce
IsBlink(state, eyesOpen, now, debounce) ==
    state.wasEyesClosed /\ eyesOpen
        /\ (now - state.lastBlinkTimestamp) > debounce

WasEyesClosedAfter_noBand(was, eyesClosed, eyesOpen) ==
    IF eyesClosed THEN TRUE ELSE FALSE
WasEyesClosedAfter_keep(was, eyesClosed, eyesOpen) ==
    IF eyesClosed THEN TRUE ELSE was
WasEyesClosedAfter(was, eyesClosed, eyesOpen) ==
    IF eyesClosed THEN TRUE
    ELSE IF eyesOpen THEN FALSE
    ELSE was

\* Lines 54-98: the face has both probabilities.
ProcessFace(states, face, now, debounce) ==
    LET leftEyeOpen == face.leftEyeOpenProbability
        rightEyeOpen == face.rightEyeOpenProbability
        faceId == FaceId(face)
        created == GetOrCreate(states, faceId)
        state == created[faceId]
        eyesClosed == EyesClosed(leftEyeOpen, rightEyeOpen)
        eyesOpen == EyesOpen(leftEyeOpen, rightEyeOpen)
        isBlink == IsBlink(state, eyesOpen, now, debounce)
        updated ==
            [state EXCEPT !.wasEyesClosed =
                WasEyesClosedAfter(state.wasEyesClosed, eyesClosed, eyesOpen)]
    IN  IF isBlink
        THEN [states |->
                [created EXCEPT ![faceId] =
                    [updated EXCEPT !.lastBlinkTimestamp = now]],
              result |->
                BlinkEvent(now, leftEyeOpen, rightEyeOpen, face.trackingId)]
        ELSE [states |-> [created EXCEPT ![faceId] = updated],
              result |-> NoEvent]

HasClassification(face) ==
    /\ face.leftEyeOpenProbability # Undefined
    /\ face.rightEyeOpenProbability # Undefined

\* processBlinkFromFaces as a function of the map, its arguments and Date.now().
BlinkStep_eagerState(states, faces, now, debounce) ==
    IF Len(faces) = 0
    THEN [states |-> GetOrCreate(states, 0), result |-> NoEvent]
    ELSE IF ~HasClassification(faces[1])
    THEN [states |-> states, result |-> NoEvent]
    ELSE ProcessFace(states, faces[1], now, debounce)
BlinkStep(states, faces, now, debounce) ==
    IF Len(faces) = 0
    THEN [states |-> states, result |-> NoEvent]
    ELSE IF ~HasClassification(faces[1])
    THEN [states |-> states, result |-> NoEvent]
    ELSE ProcessFace(states, faces[1], now, debounce)

\* blinkStates.clear()
Cleared_flagsOnly(states) ==
    [k \in Keys |->
        IF states[k].present
        THEN [states[k] EXCEPT !.wasEyesClosed = FALSE]
        ELSE NoState]
Cleared(states) == EmptyMap

\* ------------------------------------------- variant B: what is observed

\* The key and the classification of a sample, read off the sample itself.
KeyOf(face) == IF face.trackingId = Undefined THEN 0 ELSE face.trackingId
BothBelow(face, t) ==
    face.leftEyeOpenProbability < t /\ face.rightEyeOpenProbability < t
BothAbove(face, t) ==
    face.leftEyeOpenProbability > t /\ face.rightEyeOpenProbability > t
Handled(faces) == Len(faces) > 0 /\ HasClassification(faces[1])

\* The script (0.9,0.9) (0.1,0.1) (0.1,0.1) (0.9,0.9) of one face.
ScriptB == <<90, 10, 10, 90>>
ScriptOff == [pos |-> -1, events |-> 0, key |-> 0]
ScriptStart == [pos |-> 0, events |-> 0, key |-> 0]

ScriptBAfter(s, faces, res) ==
    IF /\ s.pos >= 0
       /\ s.pos < Len(ScriptB)
       /\ Handled(faces)
       /\ faces[1].leftEyeOpenProbability = ScriptB[s.pos + 1]
       /\ faces[1].rightEyeOpenProbability = ScriptB[s.pos + 1]
       /\ (s.pos = 0 \/ KeyOf(faces[1]) = s.key)
    THEN [pos |-> s.pos + 1,
          events |-> s.events + (IF res.isBlink THEN 1 ELSE 0),
          key |-> KeyOf(faces[1])]
    ELSE ScriptOff

\* The kind of a sample: no face, no classification, both eyes closed, both
\* open, exactly one eye closed, or anything else between the thresholds.
KindB(faces) ==
    IF Len(faces) = 0 THEN "none"
    ELSE IF ~HasClassification(faces[1]) THEN "unclassified"
    ELSE IF BothBelow(faces[1], 40) THEN "closed"
    ELSE IF BothAbove(faces[1], 60) THEN "open"
    ELSE IF faces[1].leftEyeOpenProbability < 40
            \/ faces[1].rightEyeOpenProbability < 40 THEN "oneClosed"
    ELSE "band"

NoCall == [kind |-> "nocall", key |-> 0]

\* No call with several faces is on record.
NoHead == [count |-> 0]

\* The last two entries of a list of timestamps with t appended.
LastTwo(ts, t) == IF Len(ts) = 0 THEN <<t>> ELSE <<ts[Len(ts)], t>>

\* Whether `now` is within `debounce` of the last of the timestamps `ts`.
WithinDebounce(ts, now, debounce) ==
    Len(ts) > 0 /\ now - ts[Len(ts)] <= debounce

ObserveB(faces) ==
    /\ lastCallB' =
         [kind |-> KindB(faces),
          key |-> IF Len(faces) = 0 THEN 0 ELSE KeyOf(faces[1])]
    /\ sawClosed' =
         IF Handled(faces) /\ BothBelow(faces[1], 40)
         THEN sawClosed \cup {KeyOf(faces[1])}
         ELSE sawClosed
    /\ closedSinceOpen' =
         IF Handled(faces) /\ BothBelow(faces[1], 40)
         THEN closedSinceOpen \cup {KeyOf(faces[1])}
         ELSE IF Handled(faces) /\ BothAbove(faces[1], 60)
         THEN closedSinceOpen \ {KeyOf(faces[1])}
         ELSE closedSinceOpen
    /\ droppedB' =
         IF /\ Handled(faces) /\ BothAbove(faces[1], 60)
            /\ KeyOf(faces[1]) \in closedSinceOpen
            /\ WithinDebounce(eventsAt[KeyOf(faces[1])], clock, debounceMs)
         THEN {KeyOf(faces[1])}
         ELSE {}
    /\ eventsAt' =
         IF result'.isBlink
         THEN [eventsAt EXCEPT ![KeyOf(faces[1])] = LastTwo(@, result'.timestamp)]
         ELSE eventsAt
    /\ LET f == BlinkStep(freshStates, faces, clock, debounceMs)
       IN  freshStates' = f.states /\ freshResult' = f.result
    /\ scriptB' = ScriptBAfter(scriptB, faces, result')
    /\ headOnly' =
         IF Len(faces) < 2 THEN NoHead
         ELSE LET h == BlinkStep(blinkStates, <<faces[1]>>, clock, debounceMs)
              IN  [count |-> Len(faces), state |-> h.states, out |-> h.result]

\* ------------------------------------------------------------- actions

Tick ==
    /\ clock < Epoch + MaxTicks * TickMs
    /\ clock' = clock + TickMs
    /\ UNCHANGED <<component, headOnly, varsB, varsA, varsE, varsP, varsN>>

ProcessBlinkFromFaces(faces) ==
    /\ component = "blinkProcessor"
    /\ LET out == BlinkStep(blinkStates, faces, clock, debounceMs)
       IN  blinkStates' = out.states /\ result' = out.result
    /\ ObserveB(faces)
    /\ UNCHANGED <<component, clock, debounceMs, varsA, varsE, varsP, varsN>>

ResetBlinkStates ==
    /\ component = "blinkProcessor"
    /\ blinkStates' = Cleared(blinkStates)
    /\ sawClosed' = {}
    /\ closedSinceOpen' = {}
    /\ droppedB' = {}
    /\ result' = NoEvent
    /\ lastCallB' =
         [kind |-> IF blinkStates = EmptyMap THEN "resetEmpty" ELSE "reset",
          key |-> 0]
    /\ eventsAt' = [k \in Keys |-> << >>]
    /\ freshStates' = EmptyMap
    /\ freshResult' = NoEvent
    /\ scriptB' = ScriptStart
    /\ headOnly' = NoHead
    /\ UNCHANGED <<component, clock, debounceMs, varsA, varsE, varsP, varsN>>

\* The module as loaded; the caller's debounceMs is one of `choices`.
InitBWith(choices) ==
    /\ debounceMs \in choices
    /\ blinkStates = EmptyMap
    /\ result = NoEvent
    /\ lastCallB = NoCall
    /\ sawClosed = {}
    /\ closedSinceOpen = {}
    /\ droppedB = {}
    /\ eventsAt = [k \in Keys |-> << >>]
    /\ freshStates = EmptyMap
    /\ freshResult = NoEvent
    /\ scriptB = ScriptStart

CallB == \E faces \in FaceListsB : ProcessBlinkFromFaces(faces)

\* ------------------------------------------------- variant A: the code

BLINK_DEBOUNCE_MS == 300
SC_EYE_CLOSED_THRESHOLD == 30
SC_EYE_OPEN_THRESHOLD == 70

FacesA ==
    {Face(l, r, id) : l \in ProbsA \cup {Undefined},
                      r \in ProbsA \cup {Undefined},
                      id \in {Undefined, 1}}
OtherFacesA == {Face(20, 20, Undefined), Face(90, 90, 1)}
PairFirstA == {Face(p, p, Undefined) : p \in {20, 90}}
FaceListsA ==
    {<< >>} \cup {<<f>> : f \in FacesA}
            \cup {<<f, g>> : f \in PairFirstA, g \in OtherFacesA}

\* useRef<BlinkState>({lastLeftEyeOpen: 1, lastRightEyeOpen: 1, lastBlinkTime: 0})
InitialBlinkState ==
    [lastLeftEyeOpen |-> 100, lastRightEyeOpen |-> 100, lastBlinkTime |-> 0]

\* face.leftEyeOpenProbability ?? 1
OrOne(p) == IF p = Undefined THEN 100 ELSE p

IsBlinkA_bothEyes(state, leftEyeOpen, rightEyeOpen) ==
    LET wasLeftEyeOpen == state.lastLeftEyeOpen > SC_EYE_OPEN_THRESHOLD
        wasRightEyeOpen == state.lastRightEyeOpen > SC_EYE_OPEN_THRESHOLD
        isLeftEyeClosed == leftEyeOpen < SC_EYE_CLOSED_THRESHOLD
        isRightEyeClosed == rightEyeOpen < SC_EYE_CLOSED_THRESHOLD
    IN  (wasLeftEyeOpen /\ isLeftEyeClosed)
            /\ (wasRightEyeOpen /\ isRightEyeClosed)
IsBlinkA_noEdge(state, leftEyeOpen, rightEyeOpen) ==
    leftEyeOpen < SC_EYE_CLOSED_THRESHOLD
        \/ rightEyeOpen < SC_EYE_CLOSED_THRESHOLD
IsBlinkA(state, leftEyeOpen, rightEyeOpen) ==
    LET wasLeftEyeOpen == state.lastLeftEyeOpen > SC_EYE_OPEN_THRESHOLD
        wasRightEyeOpen == state.lastRightEyeOpen > SC_EYE_OPEN_THRESHOLD
        isLeftEyeClosed == leftEyeOpen < SC_EYE_CLOSED_THRESHOLD
        isRightEyeClosed == rightEyeOpen < SC_EYE_CLOSED_THRESHOLD
    IN  (wasLeftEyeOpen /\ isLeftEyeClosed)
            \/ (wasRightEyeOpen /\ isRightEyeClosed)

\* isBlink && now - state.lastBlinkTime > BLINK_DEBOUNCE_MS
PassesDebounce_inclusive(isBlink, state, now) ==
    isBlink /\ now - state.lastBlinkTime >= BLINK_DEBOUNCE_MS
PassesDebounce(isBlink, state, now) ==
    isBlink /\ now - state.lastBlinkTime > BLINK_DEBOUNCE_MS

\* The early return of processBlink.
SkipsBlink(faces, enabled, hasCallback) ==
    ~enabled \/ ~hasCallback \/ Len(faces) = 0

\* processBlink as a function of the ref, its argument, the props and
\* Date.now().
ProcessBlink_storeOnEmit(state, faces, now, enabled, hasCallback) ==
    IF SkipsBlink(faces, enabled, hasCallback)
    THEN [state |-> state, emitted |-> NoEvent]
    ELSE LET face == faces[1]
             leftEyeOpen == OrOne(face.leftEyeOpenProbability)
             rightEyeOpen == OrOne(face.rightEyeOpenProbability)
             isBlink == IsBlinkA(state, leftEyeOpen, rightEyeOpen)
             emits == PassesDebounce(isBlink, state, now)
         IN  [state |->
                IF emits \/ ~isBlink
                THEN [lastLeftEyeOpen |-> leftEyeOpen,
                      lastRightEyeOpen |-> rightEyeOpen,
                      lastBlinkTime |->
                         IF emits THEN now ELSE state.lastBlinkTime]
                ELSE state,
              emitted |->
                IF emits
                THEN BlinkEvent(now, leftEyeOpen, rightEyeOpen, face.trackingId)
                ELSE NoEvent]
ProcessBlink(state, faces, now, enabled, hasCallback) ==
    IF SkipsBlink(faces, enabled, hasCallback)
    THEN [state |-> state, emitted |-> NoEvent]
    ELSE LET face == faces[1]
             leftEyeOpen == OrOne(face.leftEyeOpenProbability)
             rightEyeOpen == OrOne(face.rightEyeOpenProbability)
             isBlink == IsBlinkA(state, leftEyeOpen, rightEyeOpen)
             emits == PassesDebounce(isBlink, state, now)
         IN  [state |->
                [lastLeftEyeOpen |-> leftEyeOpen,
                 lastRightEyeOpen |-> rightEyeOpen,
                 lastBlinkTime |->
                    IF emits THEN now ELSE state.lastBlinkTime],
              emitted |->
                IF emits
                THEN BlinkEvent(now, leftEyeOpen, rightEyeOpen, face.trackingId)
                ELSE NoEvent]

\* ------------------------------------------- variant A: what is observed

\* A transition of an eye from above 0.7 in the stored sample to below 0.3 in
\* the new one.
Closes(before, after) == before > 70 /\ after < 30

ScriptA == <<[l |-> 90, r |-> 90], [l |-> 90, r |-> 20]>>

ScriptAAfter(s, faces, ev, processed) ==
    IF /\ s.pos >= 0
       /\ s.pos < Len(ScriptA)
       /\ processed
       /\ Handled(faces)
       /\ faces[1].leftEyeOpenProbability = ScriptA[s.pos + 1].l
       /\ faces[1].rightEyeOpenProbability = ScriptA[s.pos + 1].r
    THEN [pos |-> s.pos + 1,
          events |-> s.events + (IF ev.isBlink THEN 1 ELSE 0),
          key |-> 0]
    ELSE ScriptOff

KindA(faces) ==
    IF ~isMounted THEN "unmounted"
    ELSE IF ~blinkDetection \/ ~hasOnBlinkDetected THEN "disabled"
    ELSE IF Len(faces) = 0 THEN "none"
    ELSE IF ~HasClassification(faces[1]) THEN "unclassified"
    ELSE "sample"

\* No sample has been handled since the mount.
NoSampleA == [left |-> Undefined, right |-> Undefined]

NoCallA ==
    [kind |-> "nocall", trigger |-> FALSE, sinceEvent |-> Undefined,
     left |-> Undefined, right |-> Undefined]

ObserveA(faces) ==
    /\ lastCallA' =
         [kind |-> KindA(faces),
          trigger |->
            /\ KindA(faces) = "sample"
            /\ \/ Closes(blinkState.lastLeftEyeOpen,
                         faces[1].leftEyeOpenProbability)
               \/ Closes(blinkState.lastRightEyeOpen,
                         faces[1].rightEyeOpenProbability),
          sinceEvent |->
            IF KindA(faces) \in {"sample", "unclassified"} /\ Len(emittedAt) > 0
            THEN clock - emittedAt[Len(emittedAt)]
            ELSE Undefined,
          left |->
            IF KindA(faces) \in {"sample", "unclassified"}
            THEN faces[1].leftEyeOpenProbability ELSE Undefined,
          right |->
            IF KindA(faces) \in {"sample", "unclassified"}
            THEN faces[1].rightEyeOpenProbability ELSE Undefined]
    /\ emittedAt' =
         IF emitted'.isBlink THEN LastTwo(emittedAt, emitted'.timestamp)
         ELSE emittedAt
    /\ scriptA' =
         ScriptAAfter(scriptA, faces, emitted', KindA(faces) = "sample")
    /\ prevSampleA' =
         IF KindA(faces) \in {"sample", "unclassified"}
         THEN [left |-> OrOne(faces[1].leftEyeOpenProbability),
               right |-> OrOne(faces[1].rightEyeOpenProbability)]
         ELSE prevSampleA
    /\ headOnly' =
         IF Len(faces) < 2 THEN NoHead
         ELSE IF ~isMounted
         THEN [count |-> Len(faces), state |-> blinkState, out |-> NoEvent]
         ELSE LET h == ProcessBlink(blinkState, <<faces[1]>>, clock,
                                    blinkDetection, hasOnBlinkDetected)
              IN  [count |-> Len(faces), state |-> h.state, out |-> h.emitted]

\* ---------------------------------------------------- variant A: actions

\* handleFacesDetected: nothing once unmounted, else processBlink.
HandleFacesDetected(faces) ==
    /\ component = "SmartCamera"
    /\ IF ~isMounted
       THEN blinkState' = blinkState /\ emitted' = NoEvent
       ELSE LET out == ProcessBlink(blinkState, faces, clock,
                                    blinkDetection, hasOnBlinkDetected)
            IN  blinkState' = out.state /\ emitted' = out.emitted
    /\ ObserveA(faces)
    /\ UNCHANGED <<component, clock, varsB, varsE, varsP, varsN, blinkDetection,
                   hasOnBlinkDetected, isMounted>>

\* A render with other props.
SetProps(enabled, hasCallback) ==
    /\ component = "SmartCamera"
    /\ isMounted
    /\ blinkDetection' = enabled
    /\ hasOnBlinkDetected' = hasCallback
    /\ UNCHANGED <<component, clock, headOnly, varsB, varsE, varsP, varsN, isMounted,
                   blinkState, emitted, lastCallA, emittedAt, scriptA,
                   prevSampleA>>

\* The cleanup of the mount effect.
Unmount ==
    /\ component = "SmartCamera"
    /\ isMounted
    /\ isMounted' = FALSE
    /\ blinkState' = InitialBlinkState
    /\ emitted' = NoEvent
    /\ lastCallA' = [NoCallA EXCEPT !.kind = "unmount"]
    /\ scriptA' = ScriptOff
    /\ prevSampleA' = NoSampleA
    /\ headOnly' = NoHead
    /\ UNCHANGED <<component, clock, varsB, varsE, varsP, varsN, blinkDetection,
                   hasOnBlinkDetected, emittedAt>>

\* The component as mounted; its props are among `props`.
InitAWith(props) ==
    /\ blinkDetection \in props
    /\ hasOnBlinkDetected \in props
    /\ isMounted = TRUE
    /\ blinkState = InitialBlinkState
    /\ emitted = NoEvent
    /\ lastCallA = NoCallA
    /\ emittedAt = << >>
    /\ scriptA = ScriptStart
    /\ prevSampleA = NoSampleA

CallA == \E faces \in FaceListsA : HandleFacesDetected(faces)

Render == \E e \in BOOLEAN, c \in BOOLEAN : SetProps(e, c)

\* ------------------------------------------- the eye status hook: code

\* eyeClosedThreshold = 0.5 when the option is not given
DEFAULT_EYE_CLOSED_THRESHOLD == 50

ProbsE == {30, 50, 60}
ThresholdOptions == {Undefined, 60}

FacesE ==
    {Face(l, r, id) : l \in ProbsE \cup {Undefined},
                      r \in ProbsE \cup {Undefined},
                      id \in {Undefined, 1}}
OtherFacesE == {Face(30, 30, 1), Face(60, 30, Undefined)}
PairFirstE == {Face(30, 60, Undefined), Face(60, 60, 1)}
FaceListsE ==
    {<< >>} \cup {<<f>> : f \in FacesE}
            \cup {<<f, g>> : f \in PairFirstE, g \in OtherFacesE}

\* const { eyeClosedThreshold = 0.5 } = options
ThresholdOrDefault(t) ==
    IF t = Undefined THEN DEFAULT_EYE_CLOSED_THRESHOLD ELSE t

\* useState<EyeStatusResult | null>(null)
NullStatus == [present |-> FALSE]

\* isClosed: openProbability < eyeClosedThreshold
IsClosed_inclusive(openProbability, threshold) == openProbability <= threshold
IsClosed(openProbability, threshold) == openProbability < threshold

EyeStatusResult(face, now, threshold) ==
    [present |-> TRUE,
     leftEye |->
        [openProbability |-> face.leftEyeOpenProbability,
         isClosed |-> IsClosed(face.leftEyeOpenProbability, threshold)],
     rightEye |->
        [openProbability |-> face.rightEyeOpenProbability,
         isClosed |-> IsClosed(face.rightEyeOpenProbability, threshold)],
     faceId |-> face.trackingId,
     timestamp |-> now]

\* The early returns of processEyeStatus.
SkipsEyeStatus(faces, en) ==
    \/ ~en
    \/ Len(faces) = 0
    \/ faces[1].leftEyeOpenProbability = Undefined
    \/ faces[1].rightEyeOpenProbability = Undefined

\* processEyeStatus as a function of the state, its argument, the options
\* and Date.now(): the state set and the status passed to the callback.
EyeStatusStep_lastFace(status, faces, now, en, threshold, hasCallback) ==
    IF SkipsEyeStatus(faces, en)
    THEN [status |-> status, emitted |-> NullStatus]
    ELSE LET s == EyeStatusResult(faces[Len(faces)], now, threshold)
         IN  [status |-> s,
              emitted |-> IF hasCallback THEN s ELSE NullStatus]
EyeStatusStep(status, faces, now, en, threshold, hasCallback) ==
    IF SkipsEyeStatus(faces, en)
    THEN [status |-> status, emitted |-> NullStatus]
    ELSE LET s == EyeStatusResult(faces[1], now, threshold)
         IN  [status |-> s,
              emitted |-> IF hasCallback THEN s ELSE NullStatus]

\* ------------------------------- the eye status hook: what is observed

KindE(faces) ==
    IF ~hookEnabled THEN "disabled"
    ELSE IF Len(faces) = 0 THEN "none"
    ELSE IF ~HasClassification(faces[1]) THEN "unclassified"
    ELSE "sample"

NoCallE ==
    [kind |-> "nocall", left |-> Undefined, right |-> Undefined,
     id |-> Undefined, at |-> Undefined, sincePrev |-> Undefined]

ObserveE(faces) ==
    /\ lastCallE' =
         IF KindE(faces) = "sample"
         THEN [kind |-> "sample",
               left |-> faces[1].leftEyeOpenProbability,
               right |-> faces[1].rightEyeOpenProbability,
               id |-> faces[1].trackingId,
               at |-> clock,
               sincePrev |->
                  IF eyeStatus.present THEN clock - eyeStatus.timestamp
                  ELSE Undefined]
         ELSE [NoCallE EXCEPT !.kind = KindE(faces)]
    /\ headOnly' =
         IF Len(faces) < 2 THEN NoHead
         ELSE LET h == EyeStatusStep(eyeStatus, <<faces[1]>>, clock,
                                     hookEnabled, eyeClosedThreshold,
                                     hasOnEyeStatusChange)
              IN  [count |-> Len(faces), state |-> h.status, out |-> h.emitted]

\* ------------------------------------- the eye status hook: actions

ProcessEyeStatus(faces) ==
    /\ component = "useBlinkDetection"
    /\ LET out == EyeStatusStep(eyeStatus, faces, clock, hookEnabled,
                                eyeClosedThreshold, hasOnEyeStatusChange)
       IN  eyeStatus' = out.status /\ statusEmitted' = out.emitted
    /\ ObserveE(faces)
    /\ UNCHANGED <<component, clock, varsB, varsA, varsP, varsN, hookEnabled,
                   eyeClosedThreshold, hasOnEyeStatusChange>>

\* reset(): setEyeStatus(null)
ResetEyeStatus ==
    /\ component = "useBlinkDetection"
    /\ eyeStatus' = NullStatus
    /\ statusEmitted' = NullStatus
    /\ lastCallE' = [NoCallE EXCEPT !.kind = "reset"]
    /\ headOnly' = NoHead
    /\ UNCHANGED <<component, clock, varsB, varsA, varsP, varsN, hookEnabled,
                   eyeClosedThreshold, hasOnEyeStatusChange>>

\* A render with other options; the effect on `enabled` resets on disable.
SetOptions(en, threshold, hasCallback) ==
    /\ component = "useBlinkDetection"
    /\ hookEnabled' = en
    /\ eyeClosedThreshold' = ThresholdOrDefault(threshold)
    /\ hasOnEyeStatusChange' = hasCallback
    /\ eyeStatus' = IF ~en THEN NullStatus ELSE eyeStatus
    /\ statusEmitted' = NullStatus
    /\ lastCallE' = [NoCallE EXCEPT !.kind = "render"]
    /\ headOnly' = NoHead
    /\ UNCHANGED <<component, clock, varsB, varsA, varsP, varsN>>

\* The hook as first rendered; `enabled` is among `choices`.
InitEWith(choices, thresholds) ==
    /\ hookEnabled \in choices
    /\ eyeClosedThreshold \in {ThresholdOrDefault(t) : t \in thresholds}
    /\ hasOnEyeStatusChange \in choices
    /\ eyeStatus = NullStatus
    /\ statusEmitted = NullStatus
    /\ lastCallE = NoCallE

CallE == \E faces \in FaceListsE : ProcessEyeStatus(faces)

RenderE ==
    \E en \in BOOLEAN, t \in ThresholdOptions, c \in BOOLEAN :
        SetOptions(en, t, c)

\* ------------------------------------ the face detector plugin: numbers

\* A Float/CGFloat value, modelled by the number it stands for: n/d in lowest
\* terms with d > 0, or 1/0 (Infinity), -1/0 (-Infinity), 0/0 (NaN).
\* Rounding to the nearest representable value is left out.
Abs(i) == IF i < 0 THEN 0 - i ELSE i
Sign(i) == IF i < 0 THEN 0 - 1 ELSE IF i = 0 THEN 0 ELSE 1

RECURSIVE GCD(_, _)
GCD(a, b) == IF b = 0 THEN a ELSE GCD(b, a % b)

Norm(n, d) ==
    IF d = 0 THEN [n |-> Sign(n), d |-> 0]
    ELSE LET g == GCD(Abs(n), Abs(d))
         IN  [n |-> (Sign(d) * n) \div g, d |-> Abs(d) \div g]

Num(i) == [n |-> i, d |-> 1]
NaN == [n |-> 0, d |-> 0]
IsFinite(a) == a.d # 0

FNeg(a) == [n |-> 0 - a.n, d |-> a.d]
FRecip(a) == Norm(a.d, a.n)
FMul(a, b) == Norm(a.n * b.n, a.d * b.d)
FDiv(a, b) == FMul(a, FRecip(b))
FAdd(a, b) ==
    IF IsFinite(a) /\ IsFinite(b)
    THEN Norm(a.n * b.d + b.n * a.d, a.d * b.d)
    ELSE IF a = NaN \/ b = NaN THEN NaN
    ELSE IF IsFinite(b) THEN a
    ELSE IF IsFinite(a) THEN b
    ELSE IF a = b THEN a ELSE NaN
FSub(a, b) == FAdd(a, FNeg(b))

\* ------------------------------------- the face detector plugin: inputs

Platforms == {"android", "ios"}

\* The keys faceToMap/faceToDict give the landmarks and contours of ML Kit.
LandmarkKey ==
    [LEFT_EYE |-> "leftEye", RIGHT_EYE |-> "rightEye",
     NOSE_BASE |-> "noseBase", LEFT_CHEEK |-> "leftCheek",
     RIGHT_CHEEK |-> "rightCheek", MOUTH_LEFT |-> "mouthLeft",
     MOUTH_RIGHT |-> "mouthRight", MOUTH_BOTTOM |-> "mouthBottom",
     LEFT_EAR |-> "leftEar", RIGHT_EAR |-> "rightEar"]
ContourKey ==
    [FACE |-> "face", LEFT_EYEBROW_TOP |-> "leftEyebrowTop",
     LEFT_EYEBROW_BOTTOM |-> "leftEyebrowBottom",
     RIGHT_EYEBROW_TOP |-> "rightEyebrowTop",
     RIGHT_EYEBROW_BOTTOM |-> "rightEyebrowBottom",
     LEFT_EYE |-> "leftEye", RIGHT_EYE |-> "rightEye",
     UPPER_LIP_TOP |-> "upperLipTop", UPPER_LIP_BOTTOM |-> "upperLipBottom",
     LOWER_LIP_TOP |-> "lowerLipTop", LOWER_LIP_BOTTOM |-> "lowerLipBottom",
     NOSE_BRIDGE |-> "noseBridge", NOSE_BOTTOM |-> "noseBottom",
     LEFT_CHEEK |-> "leftCheek", RIGHT_CHEEK |-> "rightCheek"]
LandmarkTypes == DOMAIN LandmarkKey
ContourTypes == DOMAIN ContourKey

Pt(x, y) == [x |-> x, y |-> y]
NoPoints == [t \in {} |-> Pt(0, 0)]

\* A face as ML Kit hands it over, reduced to its geometry.  `throws` says
\* that reading this face raises an exception inside faceToMap.
DetectedFace(b, lms, cts, throws) ==
    [bounds |-> b, landmarks |-> lms, contours |-> cts, throws |-> throws]

SmallBox == [x |-> 100, y |-> 50, width |-> 40, height |-> 20]
FullBox == [x |-> 0, y |-> 0, width |-> 640, height |-> 480]
OneLandmark == [t \in {"LEFT_EYE"} |-> Pt(320, 240)]
TwoLandmarks ==
    [t \in {"NOSE_BASE", "RIGHT_EAR"} |->
        IF t = "NOSE_BASE" THEN Pt(100, 50) ELSE Pt(600, 100)]
OneContour == [t \in {"FACE"} |-> <<Pt(100, 50), Pt(140, 70)>>]

PlainFace == DetectedFace(SmallBox, NoPoints, NoPoints, FALSE)
ThrowingFace == [PlainFace EXCEPT !.throws = TRUE]
DetectedFaces ==
    {PlainFace,
     DetectedFace(FullBox, NoPoints, OneContour, FALSE),
     DetectedFace(SmallBox, OneLandmark, NoPoints, FALSE),
     DetectedFace(FullBox, TwoLandmarks, OneContour, FALSE)}
DetectedLists ==
    {<< >>} \cup {<<f>> : f \in DetectedFaces \cup {ThrowingFace}}
            \cup {<<ThrowingFace, PlainFace>>, <<PlainFace, ThrowingFace>>,
                  <<PlainFace, PlainFace>>}

\* frame.width and frame.height as the camera pipeline reports them.
FrameSizes ==
    {[width |-> 640, height |-> 480], [width |-> 0, height |-> 480],
     [width |-> 640, height |-> 0], [width |-> 0 - 640, height |-> 480]}
UsualFrame == [width |-> 640, height |-> 480]

\* The arguments of a callback: none, the options of the coordinate
\* transformation, or the options of the detector.
EmptyArgs == [k \in {} |-> ""]
GeometryArgs ==
    {[autoMode |-> a, windowWidth |-> w, windowHeight |-> 500,
      cameraFacing |-> c] :
        a \in BOOLEAN, w \in {1000, 640}, c \in {"front", "back"}}
PerformanceStrings == {"accurate", "fast", "ACCURATE"}
ModeStrings == {"all", "none", "ALL"}
ModePairs == {<<"all", "ALL">>, <<"ALL", "none">>, <<"none", "all">>}
ModeArgs ==
    {[performanceMode |-> p, landmarkMode |-> l, contourMode |-> ck[1],
      classificationMode |-> ck[2]] :
        p \in PerformanceStrings, l \in ModeStrings, ck \in ModePairs}

\* -------------------------------------- the face detector plugin: code

\* options["key"] as? T ?: default
Opt(options, key, default) ==
    IF key \in DOMAIN options THEN options[key] ELSE default

\* The when/switch of updateDetectorOptions on each mode string.
PerformanceModeOf(s) ==
    IF s = "accurate" THEN "PERFORMANCE_MODE_ACCURATE"
    ELSE "PERFORMANCE_MODE_FAST"
ModeOf_strict(s) ==
    IF s = "all" THEN "ALL" ELSE IF s = "none" THEN "NONE" ELSE "threw"
ModeOf(s) == IF s = "all" THEN "ALL" ELSE "NONE"

\* DetectorConfig as read from the options (on iOS, the four stored
\* properties and the locals of updateDetectorOptions).
ConfigOf(options) ==
    [performanceMode |-> Opt(options, "performanceMode", "fast"),
     landmarkMode |-> Opt(options, "landmarkMode", "none"),
     contourMode |-> Opt(options, "contourMode", "none"),
     classificationMode |-> Opt(options, "classificationMode", "none"),
     minFaceSize |-> Opt(options, "minFaceSize", 15),
     trackingEnabled |-> Opt(options, "trackingEnabled", FALSE),
     autoMode |-> Opt(options, "autoMode", FALSE),
     windowWidth |-> Num(Opt(options, "windowWidth", 1)),
     windowHeight |-> Num(Opt(options, "windowHeight", 1)),
     cameraFacing |-> Opt(options, "cameraFacing", "front")]

\* FaceDetectorOptions as built from a config.
DetectorOptionsOf(config) ==
    [performanceMode |-> PerformanceModeOf(config.performanceMode),
     landmarkMode |-> ModeOf(config.landmarkMode),
     contourMode |-> ModeOf(config.contourMode),
     classificationMode |-> ModeOf(config.classificationMode),
     minFaceSize |-> config.minFaceSize,
     trackingEnabled |-> config.trackingEnabled]

NoConfig == [isNull |-> TRUE]

\* The test "only recreate detector if core options changed" (Android only).
SameCoreOptions_modesOnly(os, current, new) ==
    /\ os = "android"
    /\ current # NoConfig
    /\ current.performanceMode = new.performanceMode
    /\ current.landmarkMode = new.landmarkMode
    /\ current.contourMode = new.contourMode
    /\ current.classificationMode = new.classificationMode
SameCoreOptions(os, current, new) ==
    /\ os = "android"
    /\ current # NoConfig
    /\ current.performanceMode = new.performanceMode
    /\ current.landmarkMode = new.landmarkMode
    /\ current.contourMode = new.contourMode
    /\ current.classificationMode = new.classificationMode
    /\ current.minFaceSize = new.minFaceSize
    /\ current.trackingEnabled = new.trackingEnabled

\* updateDetectorOptions: the config and the detector it leaves.
UpdateDetectorOptions(os, current, detector, options) ==
    LET newConfig == ConfigOf(options)
    IN  IF SameCoreOptions(os, current, newConfig)
        THEN [config |-> newConfig, detector |-> detector, rebuilt |-> FALSE]
        ELSE [config |-> newConfig,
              detector |-> DetectorOptionsOf(newConfig),
              rebuilt |-> TRUE]

ScaleX_windowAlways(autoMode, windowWidth, frameWidth) ==
    FDiv(windowWidth, Num(frameWidth))
ScaleX(autoMode, windowWidth, frameWidth) ==
    IF autoMode THEN FDiv(windowWidth, Num(frameWidth))
    ELSE FDiv(Num(1), Num(frameWidth))
ScaleY(autoMode, windowHeight, frameHeight) ==
    IF autoMode THEN FDiv(windowHeight, Num(frameHeight))
    ELSE FDiv(Num(1), Num(frameHeight))
MirrorX(autoMode, cameraFacing) == autoMode /\ cameraFacing = "front"

\* pointToMap / pointToDict
PointToMap_plus(x, y, scaleX, scaleY, mirrorX, windowWidth) ==
    [x |-> IF mirrorX THEN FAdd(windowWidth, FMul(x, scaleX))
           ELSE FMul(x, scaleX),
     y |-> FMul(y, scaleY)]
PointToMap(x, y, scaleX, scaleY, mirrorX, windowWidth) ==
    [x |-> IF mirrorX THEN FSub(windowWidth, FMul(x, scaleX))
           ELSE FMul(x, scaleX),
     y |-> FMul(y, scaleY)]

\* The x of the bounding box: android.graphics.Rect has left and right,
\* CGRect has origin.x and width.
BoundsX_nearEdge(os, bounds, scaleX, mirrorX, windowWidth) ==
    IF mirrorX THEN FSub(windowWidth, FMul(Num(bounds.x), scaleX))
    ELSE FMul(Num(bounds.x), scaleX)
BoundsX_unmirrored(os, bounds, scaleX, mirrorX, windowWidth) ==
    FMul(Num(bounds.x), scaleX)
BoundsX(os, bounds, scaleX, mirrorX, windowWidth) ==
    LET left == bounds.x
        right == bounds.x + bounds.width
    IN  IF os = "android"
        THEN IF mirrorX THEN FSub(windowWidth, FMul(Num(right), scaleX))
             ELSE FMul(Num(left), scaleX)
        ELSE IF mirrorX
             THEN FSub(windowWidth,
                       FMul(FAdd(Num(bounds.x), Num(bounds.width)), scaleX))
             ELSE FMul(Num(bounds.x), scaleX)

\* The keys of the result: "landmarks" and "contours" only when not empty.
ResultKeys_always(landmarks, contours) == {"bounds", "landmarks", "contours"}
ResultKeys(landmarks, contours) ==
    {"bounds"}
        \cup (IF DOMAIN landmarks # {} THEN {"landmarks"} ELSE {})
        \cup (IF DOMAIN contours # {} THEN {"contours"} ELSE {})

LandmarkTypeOf(key) == CHOOSE t \in LandmarkTypes : LandmarkKey[t] = key
ContourTypeOf(key) == CHOOSE t \in ContourTypes : ContourKey[t] = key

\* faceToMap / faceToDict
FaceToMap(os, face, frameWidth, frameHeight, autoMode, windowWidth, windowHeight, cameraFacing) ==
    LET scaleX == ScaleX(autoMode, windowWidth, frameWidth)
        scaleY == ScaleY(autoMode, windowHeight, frameHeight)
        mirrorX == MirrorX(autoMode, cameraFacing)
        bounds == face.bounds
        point(p) == PointToMap(Num(p.x), Num(p.y), scaleX, scaleY, mirrorX,
                               windowWidth)
        landmarks ==
            [key \in {LandmarkKey[t] : t \in DOMAIN face.landmarks} |->
                point(face.landmarks[LandmarkTypeOf(key)])]
        contours ==
            [key \in {ContourKey[t] : t \in DOMAIN face.contours} |->
                LET points == face.contours[ContourTypeOf(key)]
                IN  [i \in 1..Len(points) |-> point(points[i])]]
    IN  [key \in ResultKeys(landmarks, contours) |->
            CASE key = "bounds" ->
                    [x |-> BoundsX(os, bounds, scaleX, mirrorX, windowWidth),
                     y |-> FMul(Num(bounds.y), scaleY),
                     width |-> FMul(Num(bounds.width), scaleX),
                     height |-> FMul(Num(bounds.height), scaleY)]
              [] key = "landmarks" -> landmarks
              [] key = "contours" -> contours]

\* What callback returns for the detected faces: the mapped faces; on
\* Android an exception anywhere in the mapping is caught around the whole
\* batch and an empty list is returned.  faceToDict has no failing path.
MapFaces(os, faces, frame, config) ==
    IF os = "android" /\ \E i \in 1..Len(faces) : faces[i].throws
    THEN [returned |-> << >>, logged |-> "Face detection error"]
    ELSE [returned |->
            [i \in 1..Len(faces) |->
                FaceToMap(os, faces[i], frame.width, frame.height,
                          config.autoMode, config.windowWidth,
                          config.windowHeight, config.cameraFacing)],
          logged |-> "none"]

\* ---------------------------------- the face detector plugin: actions

NoFrame ==
    [frame |-> UsualFrame, faces |-> << >>, called |-> FALSE,
     arguments |-> EmptyArgs, rebuilt |-> FALSE]

\* callback(frame, arguments), `faces` being what detector.process gives.
\* Only the Kotlin mapping can raise, and only an Int frame size can be
\* negative (CVPixelBufferGetWidth is unsigned).
Callback(frame, arguments, faces) ==
    /\ component = "FaceDetectorPlugin"
    /\ (\E i \in 1..Len(faces) : faces[i].throws) => platform = "android"
    /\ (frame.width < 0 \/ frame.height < 0) => platform = "android"
    /\ LET upd == IF DOMAIN arguments # {}
                  THEN UpdateDetectorOptions(platform, currentConfig,
                                             faceDetector, arguments)
                  ELSE [config |-> currentConfig, detector |-> faceDetector,
                        rebuilt |-> FALSE]
           out == MapFaces(platform, faces, frame, upd.config)
       IN  /\ currentConfig' = upd.config
           /\ faceDetector' = upd.detector
           /\ returned' = out.returned
           /\ logged' = out.logged
           /\ lastFrame' =
                [frame |-> frame, faces |-> faces, called |-> TRUE,
                 arguments |-> arguments, rebuilt |-> upd.rebuilt]
    /\ UNCHANGED <<component, clock, headOnly, varsB, varsA, varsE, platform, varsN>>

\* The plugin as constructed with no options, on one of `platforms`.
InitPWith(platforms) ==
    /\ platform \in platforms
    /\ LET upd == UpdateDetectorOptions(platform, NoConfig, NoConfig,
                                        EmptyArgs)
       IN  currentConfig = upd.config /\ faceDetector = upd.detector
    /\ returned = << >>
    /\ logged = "none"
    /\ lastFrame = NoFrame

\* A frame that reconfigures the detector, or comes with no arguments.
CallbackWithModes ==
    \E arguments \in ModeArgs \cup {EmptyArgs},
       faces \in {<< >>, <<PlainFace>>} :
        Callback(UsualFrame, arguments, faces)

\* A frame that changes minFaceSize or trackingEnabled only.
FaceSizeArgs ==
    {[trackingEnabled |-> TRUE], [minFaceSize |-> 30],
     [minFaceSize |-> 30, trackingEnabled |-> FALSE]}

CallbackWithFaceSize ==
    \E arguments \in FaceSizeArgs :
        Callback(UsualFrame, arguments, <<PlainFace>>)

\* A frame with the options of the coordinate transformation.
CallbackWithGeometry ==
    \E frame \in FrameSizes, arguments \in GeometryArgs,
       faces \in DetectedLists :
        Callback(frame, arguments, faces)

\* ------------------------------ the native module's WebRTC frame bridge
\* (SmartCameraModule.kt / SmartCameraModule.swift with WebRTCFrameBridge)

\* The constraints startWebRTCStream is given: none, a full set, and a frame
\* rate of zero.
StreamConstraints ==
    {EmptyArgs,
     [width |-> 640, height |-> 480, frameRate |-> 15],
     [frameRate |-> 0]}

\* WebRTCFrameBridge as constructed.  frameInterval is in milliseconds on
\* Android (a Long) and in seconds on iOS (a Double).
NewBridge(os) ==
    [isInitialized |-> FALSE, isStreaming |-> FALSE,
     streamWidth |-> 1280, streamHeight |-> 720, streamFrameRate |-> 30,
     frameInterval |-> IF os = "android" THEN Num(33) ELSE FRecip(Num(30))]

BridgeInitialize(bridge) == [bridge EXCEPT !.isInitialized = TRUE]

BridgeStopStream(bridge) == [bridge EXCEPT !.isStreaming = FALSE]

\* startStream(width, height, frameRate): the bridge it leaves and whether it
\* threw.  Kotlin stops a running stream and starts again, and its integer
\* division throws on a frame rate of zero; Swift keeps a running stream as
\* it is, and its division gives Infinity.
BridgeStartStream(os, bridge, width, height, frameRate) ==
    IF ~bridge.isInitialized THEN [bridge |-> bridge, threw |-> TRUE]
    ELSE IF os = "android"
    THEN LET set == [BridgeStopStream(bridge) EXCEPT
                        !.streamWidth = width, !.streamHeight = height,
                        !.streamFrameRate = frameRate]
         IN  IF frameRate = 0 THEN [bridge |-> set, threw |-> TRUE]
             ELSE [bridge |-> [set EXCEPT
                                  !.frameInterval = Num(1000 \div frameRate),
                                  !.isStreaming = TRUE],
                   threw |-> FALSE]
    ELSE IF bridge.isStreaming THEN [bridge |-> bridge, threw |-> FALSE]
    ELSE [bridge |-> [bridge EXCEPT
                         !.streamWidth = width, !.streamHeight = height,
                         !.streamFrameRate = frameRate,
                         !.frameInterval = FRecip(Num(frameRate)),
                         !.isStreaming = TRUE],
          threw |-> FALSE]

\* destroy() of the Kotlin bridge.
BridgeDestroy(bridge) == [BridgeStopStream(bridge) EXCEPT !.isInitialized = FALSE]

\* What the observer records of a call of the module.
CallW(op, initialized, outcome, event, started) ==
    [op |-> op, initialized |-> initialized, outcome |-> outcome,
     emitted |-> event, started |-> started]

NoCallW == CallW("none", FALSE, "none", "none", FALSE)
NoTask == [pending |-> FALSE]

\* A coroutine launched in moduleScope runs only while the scope is active.
Launches(os, active) == os = "ios" \/ active

\* initializeWebRTC()
InitializeWebRTC ==
    /\ component = "SmartCameraModule"
    /\ IF Launches(platform, moduleScopeActive)
       THEN /\ webRTCBridge' = BridgeInitialize(webRTCBridge)
            /\ isWebRTCInitialized' = TRUE
            /\ lastCallW' = CallW("initializeWebRTC", isWebRTCInitialized,
                                  "resolved", "none", FALSE)
       ELSE /\ lastCallW' = CallW("initializeWebRTC", isWebRTCInitialized,
                                  "pending", "none", FALSE)
            /\ UNCHANGED <<webRTCBridge, isWebRTCInitialized>>
    /\ UNCHANGED <<component, clock, headOnly, varsB, varsA, varsE, varsP,
                   varsR, varsO, varsL,
                   moduleScopeActive, startTask, webRTCState>>

\* The part of startWebRTCStream after its test of isWebRTCInitialized.
StartStreamWith(constraints, initialized) ==
    LET out == BridgeStartStream(platform, webRTCBridge,
                                 Opt(constraints, "width", 1280),
                                 Opt(constraints, "height", 720),
                                 Opt(constraints, "frameRate", 30))
    IN  /\ webRTCBridge' = out.bridge
        /\ webRTCState' = IF out.threw THEN webRTCState ELSE "streaming"
        /\ lastCallW' =
              CallW("startWebRTCStream", initialized,
                    IF out.threw THEN "rejected" ELSE "resolved",
                    IF out.threw THEN "none" ELSE "streaming",
                    out.bridge.isStreaming /\ ~webRTCBridge.isStreaming)

\* startWebRTCStream(constraints).  The Kotlin coroutine runs on the main
\* thread in one piece; the Swift Task awaits the bridge after its guard, and
\* other Tasks of the module run meanwhile.
StartWebRTCStream(constraints) ==
    /\ component = "SmartCameraModule"
    /\ ~startTask.pending
    /\ IF ~Launches(platform, moduleScopeActive)
       THEN /\ lastCallW' = CallW("startWebRTCStream", isWebRTCInitialized,
                                  "pending", "none", FALSE)
            /\ UNCHANGED <<webRTCBridge, webRTCState, startTask>>
       ELSE IF ~isWebRTCInitialized
       THEN /\ lastCallW' = CallW("startWebRTCStream", FALSE, "rejected",
                                  "none", FALSE)
            /\ UNCHANGED <<webRTCBridge, webRTCState, startTask>>
       ELSE IF platform = "android"
       THEN /\ StartStreamWith(constraints, TRUE)
            /\ UNCHANGED startTask
       ELSE /\ startTask' = [pending |-> TRUE, constraints |-> constraints]
            /\ UNCHANGED <<webRTCBridge, webRTCState, lastCallW>>
    /\ UNCHANGED <<component, clock, headOnly, varsB, varsA, varsE, varsP,
                   varsR, varsO, varsL,
                   isWebRTCInitialized, moduleScopeActive>>

\* The Swift Task of startWebRTCStream resumes.
StartStreamTask ==
    /\ component = "SmartCameraModule"
    /\ startTask.pending
    /\ StartStreamWith(startTask.constraints, TRUE)
    /\ startTask' = NoTask
    /\ UNCHANGED <<component, clock, headOnly, varsB, varsA, varsE, varsP,
                   varsR, varsO, varsL,
                   isWebRTCInitialized, moduleScopeActive>>

\* stopWebRTCStream()
StopWebRTCStream ==
    /\ component = "SmartCameraModule"
    /\ webRTCBridge' = BridgeStopStream(webRTCBridge)
    /\ webRTCState' = "stopped"
    /\ lastCallW' = CallW("stopWebRTCStream", isWebRTCInitialized,
                          "returned", "stopped", FALSE)
    /\ UNCHANGED <<component, clock, headOnly, varsB, varsA, varsE, varsP,
                   varsR, varsO, varsL,
                   isWebRTCInitialized, moduleScopeActive, startTask>>

\* OnDestroy: cleanup()
Cleanup ==
    /\ component = "SmartCameraModule"
    /\ webRTCBridge' = IF platform = "android"
                       THEN BridgeDestroy(webRTCBridge)
                       ELSE BridgeStopStream(webRTCBridge)
    /\ isWebRTCInitialized' = FALSE
    /\ moduleScopeActive' = (platform = "ios" /\ moduleScopeActive)
    /\ lastCallW' = CallW("cleanup", isWebRTCInitialized, "returned",
                          "none", FALSE)
    /\ UNCHANGED <<component, clock, headOnly, varsB, varsA, varsE, varsP,
                   varsR, varsO, varsL,
                   startTask, webRTCState>>

\* The module as constructed.
InitW ==
    /\ isWebRTCInitialized = FALSE
    /\ webRTCBridge = NewBridge(platform)
    /\ moduleScopeActive = TRUE
    /\ startTask = NoTask
    /\ webRTCState = "none"
    /\ lastCallW = NoCallW

\* --------------------------------------- useWebRTC and its WebRTCManager

\* The RTCPeerConnection objects the library can hand out, the streams a
\* track event can carry ("none": event.streams is empty) and the states a
\* connection reports while it is open.
Connections == {"pc1", "pc2"}
RemoteStreams == {"none", "remote"}
OpenStates == {"connecting", "connected", "disconnected", "failed"}

\* WebRTCManager as constructed.
NewManager ==
    [peerConnection |-> "none", localStream |-> "none",
     remoteStream |-> "none", remoteStreamCallback |-> FALSE,
     connectionStateCallback |-> FALSE]

\* WebRTCManager.closePeerConnection()
ManagerClose(m) == [m EXCEPT !.peerConnection = "none", !.remoteStream = "none"]

\* WebRTCManager.cleanup()
ManagerCleanup(m) ==
    [ManagerClose(m) EXCEPT !.localStream = "none",
                            !.remoteStreamCallback = FALSE,
                            !.connectionStateCallback = FALSE]

\* peerConnection.close() on the connection the manager holds, if any.
CloseHeld(m, conns) ==
    [pc \in Connections |->
        IF pc = m.peerConnection THEN "closed" ELSE conns[pc]]

\* updateCallState(newState): the call state and the value last passed to
\* onCallStateChange it leaves.
UpdateCallState(mounted, hasCallback, state, passed, newState) ==
    IF mounted
    THEN [callState |-> newState,
          passed |-> IF hasCallback THEN newState ELSE passed]
    ELSE [callState |-> state, passed |-> passed]

\* The call state the onConnectionStateChange handler of the hook derives.
CallStateOf(state, current) ==
    CASE state = "connected" -> "connected"
      [] state \in {"disconnected", "failed"} -> "disconnected"
      [] state = "connecting" -> "connecting"
      [] OTHER -> current

\* What the observers record of a step of the hook.
ObserveR(op, upd) ==
    /\ lastCallR' = [op |-> op, from |-> callState]
    /\ changedR' = (changedR \/ upd.callState # callState)

\* startLocalStream(), getUserMedia having resolved.
StartLocalStream ==
    /\ component = "useWebRTC"
    /\ manager' = [manager EXCEPT !.localStream = "local"]
    /\ localStream' = IF isMountedRef THEN "local" ELSE localStream
    /\ ObserveR("startLocalStream", [callState |-> callState])
    /\ UNCHANGED <<component, clock, headOnly, varsB, varsA, varsE, varsP,
                   varsW, varsO, varsL,
                   connections, callState, remoteStream,
                   peerConnection, isMountedRef, hasOnCallStateChange,
                   passedState, closedR>>

\* createPeerConnection(): the manager takes a new connection (the one it
\* held stays open) and the handlers of the hook.
CreatePeerConnection(pc) ==
    /\ component = "useWebRTC"
    /\ connections[pc] = "unused"
    /\ LET upd == UpdateCallState(isMountedRef, hasOnCallStateChange,
                                  callState, passedState, "connecting")
       IN  /\ connections' = [connections EXCEPT ![pc] = "new"]
           /\ manager' = [manager EXCEPT !.peerConnection = pc,
                                         !.remoteStreamCallback = TRUE,
                                         !.connectionStateCallback = TRUE]
           /\ peerConnection' = IF isMountedRef THEN pc ELSE peerConnection
           /\ callState' = upd.callState
           /\ passedState' = upd.passed
           /\ closedR' = FALSE
           /\ ObserveR("createPeerConnection", upd)
    /\ UNCHANGED <<component, clock, headOnly, varsB, varsA, varsE, varsP,
                   varsW, varsO, varsL,
                   localStream, remoteStream, isMountedRef,
                   hasOnCallStateChange>>

\* closePeerConnection()
ClosePeerConnection ==
    /\ component = "useWebRTC"
    /\ LET upd == UpdateCallState(isMountedRef, hasOnCallStateChange,
                                  callState, passedState, "idle")
       IN  /\ connections' = CloseHeld(manager, connections)
           /\ manager' = ManagerClose(manager)
           /\ peerConnection' = IF isMountedRef THEN "none" ELSE peerConnection
           /\ remoteStream' = IF isMountedRef THEN "none" ELSE remoteStream
           /\ callState' = upd.callState
           /\ passedState' = upd.passed
           /\ closedR' = TRUE
           /\ ObserveR("closePeerConnection", upd)
    /\ UNCHANGED <<component, clock, headOnly, varsB, varsA, varsE, varsP,
                   varsW, varsO, varsL,
                   localStream, isMountedRef, hasOnCallStateChange>>

\* cleanup() of the hook: the call state is set without updateCallState.
CleanupHook ==
    /\ component = "useWebRTC"
    /\ connections' = CloseHeld(manager, connections)
    /\ manager' = ManagerCleanup(manager)
    /\ IF isMountedRef
       THEN /\ localStream' = "none"
            /\ remoteStream' = "none"
            /\ peerConnection' = "none"
            /\ callState' = "idle"
       ELSE UNCHANGED <<localStream, remoteStream, peerConnection, callState>>
    /\ ObserveR("cleanup",
                [callState |-> IF isMountedRef THEN "idle" ELSE callState])
    /\ UNCHANGED <<component, clock, headOnly, varsB, varsA, varsE, varsP,
                   varsW, varsO, varsL,
                   isMountedRef, hasOnCallStateChange, passedState,
                   closedR>>

\* The hook unmounts: the cleanup of its first effect.
UnmountHook ==
    /\ component = "useWebRTC"
    /\ isMountedRef
    /\ isMountedRef' = FALSE
    /\ connections' = CloseHeld(manager, connections)
    /\ manager' = ManagerCleanup(manager)
    /\ ObserveR("unmount", [callState |-> callState])
    /\ UNCHANGED <<component, clock, headOnly, varsB, varsA, varsE, varsP,
                   varsW, varsO, varsL,
                   localStream, remoteStream, peerConnection,
                   callState, hasOnCallStateChange, passedState, closedR>>

\* A connection the manager created delivers a track event: its ontrack
\* handler writes to the manager whether or not the manager still holds it.
TrackEvent(pc, stream) ==
    /\ component = "useWebRTC"
    /\ connections[pc] # "unused"
    /\ LET called == stream # "none" /\ manager.remoteStreamCallback
           upd == IF called
                  THEN UpdateCallState(isMountedRef, hasOnCallStateChange,
                                       callState, passedState, "connected")
                  ELSE [callState |-> callState, passed |-> passedState]
       IN  /\ manager' = IF stream # "none"
                         THEN [manager EXCEPT !.remoteStream = stream]
                         ELSE manager
           /\ remoteStream' = IF called /\ isMountedRef THEN stream
                              ELSE remoteStream
           /\ callState' = upd.callState
           /\ passedState' = upd.passed
           /\ ObserveR("ontrack", upd)
    /\ UNCHANGED <<component, clock, headOnly, varsB, varsA, varsE, varsP,
                   varsW, varsO, varsL,
                   connections, localStream, peerConnection,
                   isMountedRef, hasOnCallStateChange, closedR>>

\* An open connection changes state: its onconnectionstatechange handler
\* reports the state of the connection the manager holds now.
ConnectionStateEvent(pc, state) ==
    /\ component = "useWebRTC"
    /\ connections[pc] \notin {"unused", "closed", state}
    /\ LET conns == [connections EXCEPT ![pc] = state]
           called == /\ manager.connectionStateCallback
                     /\ manager.peerConnection # "none"
           upd == IF called
                  THEN UpdateCallState(isMountedRef, hasOnCallStateChange,
                         callState, passedState,
                         CallStateOf(conns[manager.peerConnection], callState))
                  ELSE [callState |-> callState, passed |-> passedState]
       IN  /\ connections' = conns
           /\ callState' = upd.callState
           /\ passedState' = upd.passed
           /\ ObserveR("onconnectionstatechange", upd)
    /\ UNCHANGED <<component, clock, headOnly, varsB, varsA, varsE, varsP,
                   varsW, varsO, varsL,
                   manager, localStream, remoteStream, peerConnection,
                   isMountedRef, hasOnCallStateChange, closedR>>

NoCallR == [op |-> "none", from |-> "idle"]

\* The hook after its first render and effects, with or without the option
\* onCallStateChange.
InitRWith(callbacks) ==
    /\ manager = NewManager
    /\ connections = [pc \in Connections |-> "unused"]
    /\ localStream = "none"
    /\ remoteStream = "none"
    /\ peerConnection = "none"
    /\ callState = "idle"
    /\ isMountedRef = TRUE
    /\ hasOnCallStateChange \in callbacks
    /\ passedState = "none"
    /\ changedR = FALSE
    /\ closedR = FALSE
    /\ lastCallR = NoCallR

\* ---------------------------------------------- createObjectPool: code

\* The initialSize and maxSize arguments, and how many objects the caller
\* keeps at a time.
InitialSizes == {0, 1, 3}
MaxSizes == {1, 2}
MaxHeld == 3

\* factory(): an object that is neither in `pool` nor among those in `held`.
NewObject(p, held) ==
    CHOOSE n \in 1..(Len(p) + Cardinality(held) + 1) :
        /\ n \notin held
        /\ \A i \in 1..Len(p) : p[i].data # n

\* The pre-population loop of createObjectPool.
RECURSIVE Populate(_, _)
Populate(p, i) ==
    IF i = 0 THEN p
    ELSE Populate(Append(p, [data |-> NewObject(p, {}), inUse |-> FALSE]),
                  i - 1)

\* pool.find((obj) => !obj.inUse): the index of the first free entry, 0 for
\* none.
FirstFree(p) ==
    IF \E i \in 1..Len(p) : ~p[i].inUse
    THEN CHOOSE i \in 1..Len(p) :
            ~p[i].inUse /\ \A j \in 1..(i - 1) : p[j].inUse
    ELSE 0

\* pool.find((p) => p.data === obj): the index of the first entry holding
\* obj, 0 for none.
IndexOfData(p, obj) ==
    IF \E i \in 1..Len(p) : p[i].data = obj
    THEN CHOOSE i \in 1..Len(p) :
            p[i].data = obj /\ \A j \in 1..(i - 1) : p[j].data # obj
    ELSE 0

\* acquire(): the pool it leaves and the object it returns.
AcquireFrom(p, max, held) ==
    LET at == FirstFree(p)
        obj == NewObject(p, held)
    IN  IF at # 0
        THEN [pool |-> [p EXCEPT ![at].inUse = TRUE], obj |-> p[at].data]
        ELSE IF Len(p) < max
        THEN [pool |-> Append(p, [data |-> obj, inUse |-> TRUE]),
              obj |-> obj]
        ELSE [pool |-> p, obj |-> obj]

\* release(obj)
ReleaseTo(p, obj) ==
    LET at == IndexOfData(p, obj)
    IN  IF at # 0 THEN [p EXCEPT ![at].inUse = FALSE] ELSE p

\* getStats()
GetStats(p) ==
    [size |-> Len(p),
     inUse |-> Cardinality({i \in 1..Len(p) : p[i].inUse}),
     available |-> Cardinality({i \in 1..Len(p) : ~p[i].inUse})]

Acquire ==
    /\ component = "objectPool"
    /\ Cardinality(heldObjects) < MaxHeld
    /\ LET out == AcquireFrom(pool, maxSize, heldObjects)
       IN  /\ pool' = out.pool
           /\ heldObjects' = heldObjects \cup {out.obj}
           /\ lastCallO' = [op |-> "acquire", obj |-> out.obj]
    /\ UNCHANGED <<component, clock, headOnly, varsB, varsA, varsE, varsP,
                   varsW, varsR, varsL, maxSize>>

\* release(obj) by a caller that then drops the object.
Release(obj) ==
    /\ component = "objectPool"
    /\ pool' = ReleaseTo(pool, obj)
    /\ heldObjects' = heldObjects \ {obj}
    /\ lastCallO' = [op |-> "release", obj |-> obj]
    /\ UNCHANGED <<component, clock, headOnly, varsB, varsA, varsE, varsP,
                   varsW, varsR, varsL, maxSize>>

\* clear()
Clear ==
    /\ component = "objectPool"
    /\ pool' = << >>
    /\ lastCallO' = [op |-> "clear", obj |-> 0]
    /\ UNCHANGED <<component, clock, headOnly, varsB, varsA, varsE, varsP,
                   varsW, varsR, varsL, maxSize, heldObjects>>

\* createObjectPool(factory, initialSize, maxSize)
InitOWith(initialSizes, maxSizes) ==
    /\ maxSize \in maxSizes
    /\ \E initialSize \in initialSizes : pool = Populate(<< >>, initialSize)
    /\ heldObjects = {}
    /\ lastCallO = [op |-> "none", obj |-> 0]

\* ---------------------------------- SmartCamera: the app state handling

\* The AppStateStatus values the handling distinguishes.
AppStates == {"active", "background", "inactive"}

\* The 'change' listener followed by the effect on [isActive, appState]:
\* the isCameraActive they leave.
AfterAppState(nextAppState, active, cameraActive) ==
    LET listened == IF nextAppState \in {"background", "inactive"} THEN FALSE
                    ELSE IF nextAppState = "active" /\ active THEN TRUE
                    ELSE cameraActive
    IN  IF nextAppState = "active" THEN active ELSE listened

\* The effect on [isActive, appState] after a render with another isActive.
AfterIsActive(state, active, cameraActive) ==
    IF state = "active" THEN active ELSE cameraActive

\* Whether <Camera> is rendered, with isActive: isCameraActive.
CameraRendered == isMounted /\ hasPermission /\ hasDevice

\* AppState emits 'change'.
AppStateChange(nextAppState) ==
    /\ component = "SmartCamera"
    /\ isMounted
    /\ nextAppState # appState
    /\ appState' = nextAppState
    /\ isCameraActive' = AfterAppState(nextAppState, isActive, isCameraActive)
    /\ lastCallL' = "change"
    /\ UNCHANGED <<component, clock, headOnly, varsB, varsA, varsE, varsP,
                   varsW, varsR, varsO, isActive, hasPermission, hasDevice>>

\* A render with another isActive prop.
SetIsActive(active) ==
    /\ component = "SmartCamera"
    /\ isMounted
    /\ active # isActive
    /\ isActive' = active
    /\ isCameraActive' = AfterIsActive(appState, active, isCameraActive)
    /\ lastCallL' = "isActive"
    /\ UNCHANGED <<component, clock, headOnly, varsB, varsA, varsE, varsP,
                   varsW, varsR, varsO, appState, hasPermission, hasDevice>>

\* useCameraPermission / useCameraDevice give another value.
SetCamera(permission, device) ==
    /\ component = "SmartCamera"
    /\ isMounted
    /\ <<permission, device>> # <<hasPermission, hasDevice>>
    /\ hasPermission' = permission
    /\ hasDevice' = device
    /\ lastCallL' = "camera"
    /\ UNCHANGED <<component, clock, headOnly, varsB, varsA, varsE, varsP,
                   varsW, varsR, varsO, appState, isActive, isCameraActive>>

\* The component as mounted while AppState.currentState is one of `states`,
\* with an isActive prop among `actives`.
InitLWith(states, actives, cameras) ==
    /\ appState \in states
    /\ isActive \in actives
    /\ isCameraActive = isActive
    /\ hasPermission \in cameras
    /\ hasDevice \in cameras
    /\ lastCallL = "mount"

\* ------------------------------------------------------ specifications

Init ==
    /\ component = "blinkProcessor"
    /\ clock = Epoch
    /\ InitBWith(DebounceChoices)
    /\ InitAWith({FALSE})
    /\ InitEWith({FALSE}, {Undefined})
    /\ InitPWith({"android"})
    /\ InitW
    /\ InitRWith({FALSE})
    /\ InitOWith({0}, {1})
    /\ InitLWith({"active"}, {TRUE}, {TRUE})
    /\ headOnly = NoHead

NextB ==
    \/ Tick
    \/ CallB
    \/ ResetBlinkStates

SpecB == Init /\ [][NextB]_vars

NextBCalls ==
    \/ Tick
    \/ CallB

SpecBCalls == Init /\ [][NextBCalls]_vars

InitSmartCamera ==
    /\ component = "SmartCamera"
    /\ clock = Epoch
    /\ InitBWith({DEFAULT_DEBOUNCE_MS})
    /\ InitAWith(BOOLEAN)
    /\ InitEWith({FALSE}, {Undefined})
    /\ InitPWith({"android"})
    /\ InitW
    /\ InitRWith({FALSE})
    /\ InitOWith({0}, {1})
    /\ InitLWith({"active"}, {TRUE}, {TRUE})
    /\ headOnly = NoHead

NextA ==
    \/ Tick
    \/ CallA
    \/ Render
    \/ Unmount

SpecA == InitSmartCamera /\ [][NextA]_vars

\* Either tracker, as the application picks one.
InitTrackers ==
    /\ clock = Epoch
    /\ InitEWith({FALSE}, {Undefined})
    /\ InitPWith({"android"})
    /\ InitW
    /\ InitRWith({FALSE})
    /\ InitOWith({0}, {1})
    /\ InitLWith({"active"}, {TRUE}, {TRUE})
    /\ headOnly = NoHead
    /\ \/ /\ component = "blinkProcessor"
          /\ InitBWith(DebounceChoices)
          /\ InitAWith({FALSE})
       \/ /\ component = "SmartCamera"
          /\ InitBWith({DEFAULT_DEBOUNCE_MS})
          /\ InitAWith(BOOLEAN)

NextTrackers ==
    \/ NextA
    \/ NextB

SpecTrackers == InitTrackers /\ [][NextTrackers]_vars

InitEyeStatus ==
    /\ component = "useBlinkDetection"
    /\ clock = Epoch
    /\ InitBWith({DEFAULT_DEBOUNCE_MS})
    /\ InitAWith({FALSE})
    /\ InitEWith(BOOLEAN, ThresholdOptions)
    /\ InitPWith({"android"})
    /\ InitW
    /\ InitRWith({FALSE})
    /\ InitOWith({0}, {1})
    /\ InitLWith({"active"}, {TRUE}, {TRUE})
    /\ headOnly = NoHead

NextE ==
    \/ Tick
    \/ CallE
    \/ RenderE
    \/ ResetEyeStatus

SpecE == InitEyeStatus /\ [][NextE]_vars

InitPlugin ==
    /\ component = "FaceDetectorPlugin"
    /\ clock = Epoch
    /\ InitBWith({DEFAULT_DEBOUNCE_MS})
    /\ InitAWith({FALSE})
    /\ InitEWith({FALSE}, {Undefined})
    /\ InitPWith(Platforms)
    /\ InitW
    /\ InitRWith({FALSE})
    /\ InitOWith({0}, {1})
    /\ InitLWith({"active"}, {TRUE}, {TRUE})
    /\ headOnly = NoHead

NextP ==
    \/ CallbackWithModes
    \/ CallbackWithFaceSize
    \/ CallbackWithGeometry

SpecP == InitPlugin /\ [][NextP]_vars

\* Any of the three consumers of face lists, as the application picks one.
InitConsumers ==
    \/ InitTrackers
    \/ InitEyeStatus

NextConsumers ==
    \/ NextTrackers
    \/ NextE

SpecConsumers == InitConsumers /\ [][NextConsumers]_vars

InitModule ==
    /\ component = "SmartCameraModule"
    /\ clock = Epoch
    /\ InitBWith({DEFAULT_DEBOUNCE_MS})
    /\ InitAWith({FALSE})
    /\ InitEWith({FALSE}, {Undefined})
    /\ InitPWith(Platforms)
    /\ InitW
    /\ InitRWith({FALSE})
    /\ InitOWith({0}, {1})
    /\ InitLWith({"active"}, {TRUE}, {TRUE})
    /\ headOnly = NoHead

NextW ==
    \/ InitializeWebRTC
    \/ \E constraints \in StreamConstraints : StartWebRTCStream(constraints)
    \/ StartStreamTask
    \/ StopWebRTCStream
    \/ Cleanup

SpecW == InitModule /\ [][NextW]_vars

InitUseWebRTC ==
    /\ component = "useWebRTC"
    /\ clock = Epoch
    /\ InitBWith({DEFAULT_DEBOUNCE_MS})
    /\ InitAWith({FALSE})
    /\ InitEWith({FALSE}, {Undefined})
    /\ InitPWith({"android"})
    /\ InitW
    /\ InitRWith(BOOLEAN)
    /\ InitOWith({0}, {1})
    /\ InitLWith({"active"}, {TRUE}, {TRUE})
    /\ headOnly = NoHead

NextR ==
    \/ StartLocalStream
    \/ \E pc \in Connections : CreatePeerConnection(pc)
    \/ ClosePeerConnection
    \/ CleanupHook
    \/ UnmountHook
    \/ \E pc \in Connections, stream \in RemoteStreams : TrackEvent(pc, stream)
    \/ \E pc \in Connections, state \in OpenStates :
          ConnectionStateEvent(pc, state)

SpecR == InitUseWebRTC /\ [][NextR]_vars

InitObjectPool ==
    /\ component = "objectPool"
    /\ clock = Epoch
    /\ InitBWith({DEFAULT_DEBOUNCE_MS})
    /\ InitAWith({FALSE})
    /\ InitEWith({FALSE}, {Undefined})
    /\ InitPWith({"android"})
    /\ InitW
    /\ InitRWith({FALSE})
    /\ InitOWith(InitialSizes, MaxSizes)
    /\ InitLWith({"active"}, {TRUE}, {TRUE})
    /\ headOnly = NoHead

NextO ==
    \/ Acquire
    \/ \E obj \in heldObjects : Release(obj)
    \/ Clear

SpecO == InitObjectPool /\ [][NextO]_vars

InitLifecycle ==
    /\ component = "SmartCamera"
    /\ clock = Epoch
    /\ InitBWith({DEFAULT_DEBOUNCE_MS})
    /\ InitAWith({FALSE})
    /\ InitEWith({FALSE}, {Undefined})
    /\ InitPWith({"android"})
    /\ InitW
    /\ InitRWith({FALSE})
    /\ InitOWith({0}, {1})
    /\ InitLWith(AppStates, BOOLEAN, BOOLEAN)
    /\ headOnly = NoHead

NextL ==
    \/ \E nextAppState \in AppStates : AppStateChange(nextAppState)
    \/ \E active \in BOOLEAN : SetIsActive(active)
    \/ \E permission \in BOOLEAN, device \in BOOLEAN :
          SetCamera(permission, device)
    \/ Unmount

SpecL == InitLifecycle /\ [][NextL]_vars

\* ------------------------------------------------ claims on variant B

\* The stored flag and timestamp of a key; an absent entry reads as a new one.
WasEyesClosedOf(states, k) ==
    IF states[k].present THEN states[k].wasEyesClosed ELSE FALSE
LastBlinkOf(states, k) ==
    IF states[k].present THEN states[k].lastBlinkTimestamp ELSE 0

\* The kinds of call that process a sample with both probabilities.
SampleKinds == {"closed", "open", "oneClosed", "band"}

\* C1: variant B returns an event only on a sample with both eyes above the
\* open threshold that follows an earlier both-eyes-closed sample of the same
\* face, never on a both-eyes-closed sample; the script (0.9,0.9) (0.1,0.1)
\* (0.1,0.1) from fresh state returns no event and a following (0.9,0.9)
\* returns exactly one.
C1_FullCycle ==
    /\ result.isBlink =>
          /\ lastCallB.kind = "open"
          /\ lastCallB.key \in sawClosed
          /\ result.leftEyeOpen > 60 /\ result.rightEyeOpen > 60
    /\ lastCallB.kind = "closed" => ~result.isBlink
    /\ scriptB.pos \in {1, 2, 3} => scriptB.events = 0
    /\ scriptB.pos = 4 => (scriptB.events = 1 /\ result.isBlink)

C1_Witness ==
    /\ scriptB.pos = 4
    /\ scriptB.events = 1
    /\ result.isBlink

\* C4: with a fixed debounceMs and calls of processBlinkFromFaces only, two
\* events returned for the same key are more than debounceMs apart, and the
\* stored lastBlinkTimestamp of a key is the timestamp of the last event
\* returned for it, 0 if there was none.
C4_DebounceB ==
    \A k \in Keys :
        /\ Len(eventsAt[k]) = 2 =>
              eventsAt[k][2] - eventsAt[k][1] > debounceMs
        /\ LastBlinkOf(blinkStates, k) =
              (IF Len(eventsAt[k]) = 0 THEN 0
               ELSE eventsAt[k][Len(eventsAt[k])])

C4_Witness ==
    \E k \in Keys :
        /\ Len(eventsAt[k]) = 2
        /\ result.isBlink
        /\ blinkStates[k].lastBlinkTimestamp = eventsAt[k][2]

\* C7: resetBlinkStates is enabled in every reachable state, leaves the map
\* empty, and from then on the tracker holds the state and returns the
\* results of a tracker that was never used and is given the same calls.
C7_ResetIsFresh ==
    /\ [](ENABLED ResetBlinkStates)
    /\ [][ResetBlinkStates =>
            \A k \in Keys : ~blinkStates'[k].present]_vars
    /\ [](blinkStates = freshStates /\ result = freshResult)

C7_Witness ==
    /\ lastCallB.kind = "reset"
    /\ \A k \in Keys : ~blinkStates[k].present

\* C8: a call changes at most the entry of the first face's key, which is
\* its trackingId, or 0 without one; an untracked face is processed exactly
\* as the same face with trackingId 0; an entry stays until a reset.
C8_PerKeyState ==
    /\ [][\A k \in Keys :
            blinkStates'[k] # blinkStates[k] =>
              \/ lastCallB'.kind \in {"reset", "resetEmpty"}
              \/ /\ lastCallB'.kind \in SampleKinds
                 /\ lastCallB'.key = k
                 /\ blinkStates'[k].present
         ]_vars
    /\ [](lastCallB.kind \in SampleKinds =>
            blinkStates[lastCallB.key].present)
    /\ [](\A f \in FacesB :
            (HasClassification(f) /\ f.trackingId = Undefined) =>
              LET asIs == BlinkStep(blinkStates, <<f>>, clock, debounceMs)
                  asZero ==
                    BlinkStep(blinkStates, <<[f EXCEPT !.trackingId = 0]>>,
                              clock, debounceMs)
              IN  /\ asIs.states = asZero.states
                  /\ asIs.result.isBlink = asZero.result.isBlink)

C8_Witness ==
    /\ blinkStates[0].present
    /\ blinkStates[1].present
    /\ blinkStates[0].wasEyesClosed
    /\ ~blinkStates[1].wasEyesClosed
    /\ lastCallB.kind = "open"
    /\ lastCallB.key = 1

\* C9: on a sample with both probabilities, wasEyesClosed of the face's key
\* becomes true if both eyes are below 0.4, false if both are above 0.6, and
\* keeps its value otherwise.
C9_Hysteresis ==
    /\ [](lastCallB.kind = "closed" =>
            WasEyesClosedOf(blinkStates, lastCallB.key))
    /\ [](lastCallB.kind = "open" =>
            ~WasEyesClosedOf(blinkStates, lastCallB.key))
    /\ [][lastCallB'.kind \in {"band", "oneClosed"} =>
            WasEyesClosedOf(blinkStates', lastCallB'.key)
              = WasEyesClosedOf(blinkStates, lastCallB'.key)]_vars

C9_Witness ==
    /\ lastCallB.kind \in {"band", "oneClosed"}
    /\ blinkStates[lastCallB.key].present
    /\ blinkStates[lastCallB.key].wasEyesClosed

\* C10: a closure is on record for a key only after a sample with both eyes
\* below the closed threshold, and it is taken off the record only by a
\* sample with both eyes above the open threshold; while every sample of a
\* key has at most one eye below the closed threshold, no event is returned
\* for that key.
C10_BothEyesJointly ==
    /\ [](\A k \in Keys :
            k \notin sawClosed =>
              /\ ~WasEyesClosedOf(blinkStates, k)
              /\ Len(eventsAt[k]) = 0)
    /\ [][\A k \in Keys :
            /\ (~WasEyesClosedOf(blinkStates, k)
                  /\ WasEyesClosedOf(blinkStates', k))
                 => (lastCallB'.kind = "closed" /\ lastCallB'.key = k)
            /\ (WasEyesClosedOf(blinkStates, k)
                  /\ ~WasEyesClosedOf(blinkStates', k))
                 => \/ lastCallB'.kind = "open" /\ lastCallB'.key = k
                    \/ lastCallB'.kind = "reset"
         ]_vars

C10_Witness ==
    /\ lastCallB.kind = "oneClosed"
    /\ lastCallB.key \notin sawClosed
    /\ blinkStates[lastCallB.key].present
    /\ ~blinkStates[lastCallB.key].wasEyesClosed
    /\ ~result.isBlink

\* ------------------------------------------------ claims on variant A

\* C2: from the initial blink state of an enabled SmartCamera, the samples
\* (0.9,0.9) then (0.9,0.2) pass exactly one event to onBlinkDetected, on the
\* second sample, which carries the closed eye's value: the event does not
\* wait for the eye to open again.
C2_SingleEyeClosure ==
    /\ scriptA.pos = 1 => (scriptA.events = 0 /\ ~emitted.isBlink)
    /\ scriptA.pos = 2 =>
          /\ scriptA.events = 1
          /\ emitted.isBlink
          /\ emitted.leftEyeOpen = 90
          /\ emitted.rightEyeOpen = 20
    /\ (emitted.isBlink /\ lastCallA.kind = "sample") =>
          (emitted.leftEyeOpen < 30 \/ emitted.rightEyeOpen < 30)

C2_Witness ==
    /\ scriptA.pos = 2
    /\ scriptA.events = 1
    /\ emitted.isBlink
    /\ emitted.timestamp - Epoch < 300

\* C3: two events passed to onBlinkDetected are more than 300 ms apart; a
\* sample that arrives within 300 ms of the last event passes none on, so of
\* two triggering transitions 100 ms apart only the first does; and while
\* samples are processed lastBlinkTime changes only to the timestamp of an
\* event passed on in that call.
C3_DebounceA ==
    /\ [](Len(emittedAt) = 2 => emittedAt[2] - emittedAt[1] > 300)
    /\ []((lastCallA.sinceEvent # Undefined /\ lastCallA.sinceEvent <= 300)
            => ~emitted.isBlink)
    /\ [][(lastCallA'.kind # "unmount"
             /\ blinkState'.lastBlinkTime # blinkState.lastBlinkTime) =>
              /\ emitted'.isBlink
              /\ emitted'.timestamp = blinkState'.lastBlinkTime
              /\ emitted'.timestamp = clock]_vars

C3_Witness ==
    /\ lastCallA.kind = "sample"
    /\ lastCallA.trigger
    /\ lastCallA.sinceEvent = 100
    /\ ~emitted.isBlink
    /\ Len(emittedAt) = 1
    /\ blinkState.lastBlinkTime = emittedAt[1]

\* --------------------------------------------- claims on both trackers

\* C5: a first face without leftEyeOpenProbability or rightEyeOpenProbability
\* changes no tracker state and yields no event, in SmartCamera's
\* processBlink and in processBlinkFromFaces.
C5_MissingClassificationNoOp ==
    [][/\ lastCallA'.kind = "unclassified" =>
            (blinkState' = blinkState /\ ~emitted'.isBlink)
       /\ lastCallB'.kind = "unclassified" =>
            (blinkStates' = blinkStates /\ ~result'.isBlink)
      ]_vars

\* C6: a call with an empty face list emits no event and leaves the tracker
\* state as it was: the blinkState ref of SmartCamera, and the whole map of
\* processBlinkFromFaces, where no entry is created.
C6_NoFaceNoChange ==
    [][/\ lastCallA'.kind = "none" =>
            (blinkState' = blinkState /\ ~emitted'.isBlink)
       /\ lastCallB'.kind = "none" =>
            (blinkStates' = blinkStates /\ ~result'.isBlink)
      ]_vars

C6_Witness ==
    /\ lastCallA.kind = "none"
    /\ blinkState.lastRightEyeOpen = 20
    /\ blinkState.lastBlinkTime > 0
    /\ ~emitted.isBlink

\* C11: Variant A bookkeeping.  After every sample whose first face carries
\* both probabilities and that processBlink handles, the stored
\* lastLeftEyeOpen and lastRightEyeOpen are that sample's values, whether the
\* sample triggered a blink or not and whether the debounce suppressed it.
C11_Bookkeeping ==
    lastCallA.kind = "sample" =>
        /\ blinkState.lastLeftEyeOpen = lastCallA.left
        /\ blinkState.lastRightEyeOpen = lastCallA.right

\* A closing sample whose blink the debounce suppressed, stored all the same.
C11_Witness ==
    /\ lastCallA.kind = "sample"
    /\ lastCallA.trigger
    /\ ~emitted.isBlink
    /\ lastCallA.sinceEvent # Undefined
    /\ lastCallA.left = 20
    /\ blinkState.lastLeftEyeOpen = 20

\* C12: only the face at index 0 is tracked and the list is never re-sorted.
\* After a call with several faces, each of processBlinkFromFaces, processBlink
\* and processEyeStatus has the state and the output it would have had, had
\* the call been given faces[0] alone.
C12_FirstFaceOnly ==
    headOnly.count >= 2 =>
        /\ component = "blinkProcessor" =>
              (headOnly.state = blinkStates /\ headOnly.out = result)
        /\ component = "SmartCamera" =>
              (headOnly.state = blinkState /\ headOnly.out = emitted)
        /\ component = "useBlinkDetection" =>
              (headOnly.state = eyeStatus /\ headOnly.out = statusEmitted)

\* The hook published the open first face of a list whose second face has an
\* eye closed.
C12_Witness ==
    /\ component = "useBlinkDetection"
    /\ headOnly.count = 2
    /\ eyeStatus.present
    /\ eyeStatus.timestamp = clock
    /\ eyeStatus.faceId = 1
    /\ ~eyeStatus.leftEye.isClosed
    /\ ~eyeStatus.rightEye.isClosed
    /\ statusEmitted = eyeStatus

\* C13: eye status is a stateless snapshot.  After a call of an enabled hook
\* with a first face carrying both probabilities, the status set (and passed to
\* the callback, when there is one) has isClosed = (probability < threshold)
\* for each eye on its own, with the sample's probabilities, trackingId and
\* time, whatever was published before and however recently.
C13_EyeStatusSnapshot ==
    lastCallE.kind = "sample" =>
        /\ eyeStatus.present
        /\ eyeStatus.leftEye =
              [openProbability |-> lastCallE.left,
               isClosed |-> lastCallE.left < eyeClosedThreshold]
        /\ eyeStatus.rightEye =
              [openProbability |-> lastCallE.right,
               isClosed |-> lastCallE.right < eyeClosedThreshold]
        /\ eyeStatus.faceId = lastCallE.id
        /\ eyeStatus.timestamp = lastCallE.at
        /\ hasOnEyeStatusChange => statusEmitted = eyeStatus

\* With the default threshold, a status published in the same millisecond as
\* the previous one: the left eye at the threshold is open, the right one
\* below it is closed.
C13_Witness ==
    /\ lastCallE.kind = "sample"
    /\ lastCallE.sincePrev = 0
    /\ eyeClosedThreshold = DEFAULT_EYE_CLOSED_THRESHOLD
    /\ eyeStatus.leftEye = [openProbability |-> 50, isClosed |-> FALSE]
    /\ eyeStatus.rightEye = [openProbability |-> 30, isClosed |-> TRUE]
    /\ statusEmitted = eyeStatus

\* ------------------------------------------------ claims on the plugin

\* The last callback got a frame of positive size.
ValidFrame ==
    /\ lastFrame.called
    /\ lastFrame.frame.width > 0
    /\ lastFrame.frame.height > 0

\* The last callback returned one entry per detected face.
AllMapped == Len(returned) = Len(lastFrame.faces)

Mirroring == currentConfig.autoMode /\ currentConfig.cameraFacing = "front"

\* windowWidth / frameWidth and windowHeight / frameHeight
WindowScaleX == FDiv(currentConfig.windowWidth, Num(lastFrame.frame.width))
WindowScaleY == FDiv(currentConfig.windowHeight, Num(lastFrame.frame.height))

\* C14: mirrored bounds anchor to the far edge.  With autoMode = true and
\* cameraFacing = 'front', on Android and on iOS, every returned bounds has
\* x = windowWidth - (bounds.x + bounds.width) * (windowWidth / frameWidth),
\* width and height scaled by scaleX and scaleY; for {100, 50, 40, 20},
\* frameWidth 640 and windowWidth 1000 the x is 781.25.
C14_MirroredBoundsFarEdge ==
    (ValidFrame /\ Mirroring /\ AllMapped) =>
        \A i \in 1..Len(returned) :
            LET b == lastFrame.faces[i].bounds
                out == returned[i].bounds
            IN  /\ out.x =
                     FSub(currentConfig.windowWidth,
                          FMul(Num(b.x + b.width), WindowScaleX))
                /\ out.width = FMul(Num(b.width), WindowScaleX)
                /\ out.height = FMul(Num(b.height), WindowScaleY)
                /\ (/\ b = SmallBox
                    /\ lastFrame.frame.width = 640
                    /\ currentConfig.windowWidth = Num(1000))
                      => out.x = [n |-> 3125, d |-> 4]

\* The Android plugin returned x = 781.25 for the example.
C14_Witness ==
    /\ platform = "android"
    /\ ValidFrame
    /\ Mirroring
    /\ currentConfig.windowWidth = Num(1000)
    /\ Len(returned) = 1
    /\ lastFrame.faces[1].bounds = SmallBox
    /\ returned[1].bounds.x = [n |-> 3125, d |-> 4]
    /\ returned[1].bounds.width = [n |-> 125, d |-> 2]

\* C15: with autoMode = false the output is frame-relative, whatever the
\* window size and the camera side: bounds are (x/frameWidth, y/frameHeight,
\* width/frameWidth, height/frameHeight) and every landmark and contour
\* point is (x/frameWidth, y/frameHeight).
C15_FrameRelative ==
    (ValidFrame /\ ~currentConfig.autoMode /\ AllMapped) =>
        \A i \in 1..Len(returned) :
            LET face == lastFrame.faces[i]
                out == returned[i]
                fw == Num(lastFrame.frame.width)
                fh == Num(lastFrame.frame.height)
                rel(p) == [x |-> FDiv(Num(p.x), fw), y |-> FDiv(Num(p.y), fh)]
            IN  /\ out.bounds =
                     [x |-> FDiv(Num(face.bounds.x), fw),
                      y |-> FDiv(Num(face.bounds.y), fh),
                      width |-> FDiv(Num(face.bounds.width), fw),
                      height |-> FDiv(Num(face.bounds.height), fh)]
                /\ \A t \in DOMAIN face.landmarks :
                      out.landmarks[LandmarkKey[t]] = rel(face.landmarks[t])
                /\ \A t \in DOMAIN face.contours :
                      \A k \in 1..Len(face.contours[t]) :
                          out.contours[ContourKey[t]][k] =
                              rel(face.contours[t][k])

\* With a 1000-wide window and the front camera, 100 and 40 of 640 come out
\* as 0.15625 and 0.0625, next to a landmark.
C15_Witness ==
    /\ ValidFrame
    /\ ~currentConfig.autoMode
    /\ currentConfig.windowWidth = Num(1000)
    /\ currentConfig.cameraFacing = "front"
    /\ Len(returned) = 1
    /\ returned[1].bounds.x = [n |-> 5, d |-> 32]
    /\ returned[1].bounds.width = [n |-> 1, d |-> 16]
    /\ "landmarks" \in DOMAIN returned[1]

\* C16 as stated: with mirroring on, putting the x of a returned landmark
\* through pointToMap again, same scale and windowWidth, gives back the
\* detector's x, for every frame and window width.
C16_MirrorRoundTrip ==
    (ValidFrame /\ Mirroring /\ AllMapped) =>
        \A i \in 1..Len(returned) :
            \A t \in DOMAIN lastFrame.faces[i].landmarks :
                LET p == lastFrame.faces[i].landmarks[t]
                    out == returned[i].landmarks[LandmarkKey[t]]
                    ScX == ScaleX(currentConfig.autoMode,
                                  currentConfig.windowWidth,
                                  lastFrame.frame.width)
                    ScY == ScaleY(currentConfig.autoMode,
                                  currentConfig.windowHeight,
                                  lastFrame.frame.height)
                IN  PointToMap(out.x, out.y, ScX, ScY, TRUE,
                               currentConfig.windowWidth).x = Num(p.x)

\* C16 amended: mirroring is a reflection of the scaled coordinate about the
\* window.  Mirroring the x of a returned landmark again at scale 1 with the
\* same windowWidth gives back the scaled, unmirrored x * scaleX; that is the
\* detector's x exactly when windowWidth = frameWidth.
C16_ReflectionRoundTrip ==
    (ValidFrame /\ Mirroring /\ AllMapped) =>
        \A i \in 1..Len(returned) :
            \A t \in DOMAIN lastFrame.faces[i].landmarks :
                LET p == lastFrame.faces[i].landmarks[t]
                    out == returned[i].landmarks[LandmarkKey[t]]
                    back == PointToMap(out.x, out.y, Num(1), Num(1), TRUE,
                                       currentConfig.windowWidth).x
                IN  /\ back = FMul(Num(p.x), WindowScaleX)
                    /\ (back = Num(p.x)) <=>
                          (p.x = 0 \/
                           currentConfig.windowWidth =
                               Num(lastFrame.frame.width))

\* A mirrored landmark of a 640-wide frame in a 1000-wide window.
C16_Witness ==
    /\ ValidFrame
    /\ Mirroring
    /\ currentConfig.windowWidth = Num(1000)
    /\ Len(returned) = 1
    /\ "landmarks" \in DOMAIN returned[1]
    /\ DOMAIN lastFrame.faces[1].landmarks = {"LEFT_EYE"}
    /\ returned[1].landmarks["leftEye"].x = Num(500)

\* C17 as stated: a frame whose width or height is zero or negative makes the
\* callback report an error and return no face geometry, whatever faces the
\* detector found in it.
C17_InvalidFrameFailsFast ==
    (lastFrame.called /\ ~ValidFrame /\ Len(lastFrame.faces) > 0) =>
        (returned = << >> /\ logged # "none")

\* C18: the returned face has a "landmarks" key exactly when the detector
\* supplied at least one landmark and a "contours" key exactly when it
\* supplied at least one contour; the keys under them are those of the
\* supplied landmarks and contours, each with its normalized points.
C18_OmissionPreserved ==
    (ValidFrame /\ AllMapped) =>
        \A i \in 1..Len(returned) :
            LET face == lastFrame.faces[i]
                out == returned[i]
                sx == IF currentConfig.autoMode THEN WindowScaleX
                      ELSE FDiv(Num(1), Num(lastFrame.frame.width))
                sy == IF currentConfig.autoMode THEN WindowScaleY
                      ELSE FDiv(Num(1), Num(lastFrame.frame.height))
                norm(p) ==
                    [x |-> IF Mirroring
                           THEN FSub(currentConfig.windowWidth,
                                     FMul(Num(p.x), sx))
                           ELSE FMul(Num(p.x), sx),
                     y |-> FMul(Num(p.y), sy)]
            IN  /\ ("landmarks" \in DOMAIN out) <=> (DOMAIN face.landmarks # {})
                /\ ("contours" \in DOMAIN out) <=> (DOMAIN face.contours # {})
                /\ DOMAIN face.landmarks # {} =>
                      /\ DOMAIN out.landmarks =
                            {LandmarkKey[t] : t \in DOMAIN face.landmarks}
                      /\ \A t \in DOMAIN face.landmarks :
                            out.landmarks[LandmarkKey[t]] =
                                norm(face.landmarks[t])
                /\ DOMAIN face.contours # {} =>
                      /\ DOMAIN out.contours =
                            {ContourKey[t] : t \in DOMAIN face.contours}
                      /\ \A t \in DOMAIN face.contours :
                            /\ Len(out.contours[ContourKey[t]]) =
                                  Len(face.contours[t])
                            /\ \A k \in 1..Len(face.contours[t]) :
                                  out.contours[ContourKey[t]][k] =
                                      norm(face.contours[t][k])

\* A face with a contour and no landmark came back with "contours" and
\* without "landmarks".
C18_Witness ==
    /\ ValidFrame
    /\ Len(returned) = 1
    /\ DOMAIN lastFrame.faces[1].landmarks = {}
    /\ DOMAIN lastFrame.faces[1].contours = {"FACE"}
    /\ DOMAIN returned[1] = {"bounds", "contours"}
    /\ Len(returned[1].contours["face"]) = 2

\* C19 as stated: when the mapping of one face of a frame fails, the other
\* faces of the frame are still returned.
C19_PerFaceIsolation ==
    (ValidFrame /\ \E i \in 1..Len(lastFrame.faces) : lastFrame.faces[i].throws)
        => Len(returned) =
              Cardinality({i \in 1..Len(lastFrame.faces) :
                              ~lastFrame.faces[i].throws})

\* C20: unrecognized enum values never raise.  After a callback whose
\* arguments carry the mode strings, the detector has landmark, contour and
\* classification mode ALL for "all" and NONE for every other string, and
\* performance mode ACCURATE for "accurate" and FAST for every other string;
\* nothing is thrown or logged.
C20_UnknownEnumFallsBack ==
    (lastFrame.called /\ "landmarkMode" \in DOMAIN lastFrame.arguments) =>
        LET a == lastFrame.arguments
            asNone(s) == IF s = "all" THEN "ALL" ELSE "NONE"
        IN  /\ faceDetector.landmarkMode = asNone(a.landmarkMode)
            /\ faceDetector.contourMode = asNone(a.contourMode)
            /\ faceDetector.classificationMode = asNone(a.classificationMode)
            /\ faceDetector.performanceMode =
                  (IF a.performanceMode = "accurate"
                   THEN "PERFORMANCE_MODE_ACCURATE"
                   ELSE "PERFORMANCE_MODE_FAST")
            /\ logged = "none"
            /\ currentConfig.landmarkMode = a.landmarkMode

\* An update with "ALL" and "ACCURATE" left a detector as for "none" and
\* "fast", and the frame's face was returned.
C20_Witness ==
    /\ lastFrame.called
    /\ "landmarkMode" \in DOMAIN lastFrame.arguments
    /\ lastFrame.arguments.landmarkMode = "ALL"
    /\ lastFrame.arguments.performanceMode = "ACCURATE"
    /\ faceDetector.landmarkMode = "NONE"
    /\ faceDetector.performanceMode = "PERFORMANCE_MODE_FAST"
    /\ Len(returned) = 1

\* ------------------------------------------ claims on the native module

\* C21: a startWebRTCStream that meets isWebRTCInitialized false (nothing
\* initialized the module since it was created or last cleaned up) is
\* rejected, does not make the bridge streaming and sends no
\* onWebRTCStateChange event with isStreaming true.
C21_StartNeedsInitialize ==
    (lastCallW.op = "startWebRTCStream" /\ ~lastCallW.initialized) =>
        /\ lastCallW.outcome = "rejected"
        /\ ~lastCallW.started
        /\ lastCallW.emitted # "streaming"

\* ------------------------------------------------- claims on useWebRTC

\* C22: while the hook is mounted with an onCallStateChange option, once
\* callState has changed the value last passed to onCallStateChange is the
\* current callState.
C22_CallbackTracksCallState ==
    (isMountedRef /\ hasOnCallStateChange /\ changedR) =>
        passedState = callState

\* C29: from closePeerConnection until the next createPeerConnection the
\* remoteStream of the manager is null and a mounted hook has remoteStream
\* null and callState 'idle', whatever events connections deliver; and the
\* manager never has a remoteStream without a peerConnection.
C29_ClosedConnectionStaysClosed ==
    /\ closedR =>
          /\ manager.remoteStream = "none"
          /\ isMountedRef => (remoteStream = "none" /\ callState = "idle")
    /\ manager.remoteStream # "none" => manager.peerConnection # "none"

\* --------------------------------------------- claims on the object pool

\* C23: the number of objects the pool holds, getStats().size, never exceeds
\* maxSize.
C23_SizeWithinMax == GetStats(pool).size <= maxSize

\* ------------------------------- claims on SmartCamera's app state handling

\* C24: whenever the camera is rendered, the isActive it is given is false
\* while the app state is 'background' or 'inactive', and is the isActive
\* prop while the app state is 'active'.
C24_NeverActiveInBackground ==
    CameraRendered =>
        /\ appState \in {"background", "inactive"} => ~isCameraActive
        /\ appState = "active" => isCameraActive = isActive

\* ------------------------------------ further claims on variant B

\* C25: a both-eyes-open sample that follows a closure of its face within
\* debounceMs of the last event returned for that face returns no event and
\* clears wasEyesClosed; and an event is only ever returned for a face whose
\* last both-eyes-closed sample has had no both-eyes-open sample since, so
\* the dropped closure gives no event later.
C25_DroppedStep ==
    LET k == lastCallB'.key
    IN  /\ k \in droppedB' =>
              (~result'.isBlink /\ ~blinkStates'[k].wasEyesClosed)
        /\ result'.isBlink => k \in closedSinceOpen

C25_DebouncedBlinkDropped ==
    [][(clock' = clock /\ lastCallB'.kind \notin {"reset", "resetEmpty"})
          => C25_DroppedStep]_vars

\* The last call was a both-eyes-open sample that followed a closure within
\* debounceMs of an event of its face, and it returned no event.
C25_Witness ==
    /\ lastCallB.kind = "open"
    /\ lastCallB.key \in droppedB
    /\ ~result.isBlink

\* ------------------------------------ further claims on variant A

\* The eye values a sample can have once a missing one is replaced by 1.
ValuesA == ProbsA \cup {100}

StoredA(v) == IF v = Undefined THEN 100 ELSE v

FLeq(a, b) == a.n * b.d <= b.n * a.d

\* The point pointToMap gives the raw point (x, y) under the configuration of
\* the last callback.
NormalizedPoint(x, y) ==
    PointToMap(Num(x), Num(y),
               ScaleX(currentConfig.autoMode, currentConfig.windowWidth,
                      lastFrame.frame.width),
               ScaleY(currentConfig.autoMode, currentConfig.windowHeight,
                      lastFrame.frame.height),
               MirrorX(currentConfig.autoMode, currentConfig.cameraFacing),
               currentConfig.windowWidth)

\* The raw point q lies in the raw box b / the point p in the returned box.
InRawBox(q, b) ==
    /\ b.x <= q.x /\ q.x <= b.x + b.width
    /\ b.y <= q.y /\ q.y <= b.y + b.height
InBounds(p, out) ==
    /\ FLeq(out.x, p.x) /\ FLeq(p.x, FAdd(out.x, out.width))
    /\ FLeq(out.y, p.y) /\ FLeq(p.y, FAdd(out.y, out.height))

\* C27: for a frame of positive size, the returned bounds span the normalized
\* corners of the raw box: with mirroring x is the normalized x of the right
\* edge and x + width that of the left edge, without mirroring the other way
\* round; and every returned landmark whose raw point lies in the raw box
\* lies in the returned bounds.
C27_BoundsAgreeWithPoints ==
    (ValidFrame /\ AllMapped) =>
        \A i \in 1..Len(returned) :
            LET face == lastFrame.faces[i]
                b == face.bounds
                out == returned[i].bounds
                near == NormalizedPoint(b.x, b.y)
                far == NormalizedPoint(b.x + b.width, b.y + b.height)
            IN  /\ Mirroring =>
                      (out.x = far.x /\ FAdd(out.x, out.width) = near.x)
                /\ ~Mirroring =>
                      (out.x = near.x /\ FAdd(out.x, out.width) = far.x)
                /\ out.y = near.y
                /\ FAdd(out.y, out.height) = far.y
                /\ \A t \in DOMAIN face.landmarks :
                      InRawBox(face.landmarks[t], b) =>
                          InBounds(returned[i].landmarks[LandmarkKey[t]], out)

\* A mirrored face came back with landmarks that lie in its box.
C27_Witness ==
    /\ ValidFrame
    /\ Mirroring
    /\ Len(returned) = 1
    /\ lastFrame.faces[1].bounds = FullBox
    /\ DOMAIN lastFrame.faces[1].landmarks # {}
    /\ "landmarks" \in DOMAIN returned[1]
    /\ currentConfig.windowWidth = Num(1000)

\* The six fields of a config the detector is built from.
CoreFields(config) ==
    <<config.performanceMode, config.landmarkMode, config.contourMode,
      config.classificationMode, config.minFaceSize, config.trackingEnabled>>

\* The config that has the given options and the defaults elsewhere.
IsConfigOf(config, options) ==
    \A key \in DOMAIN config :
        config[key] =
            IF key \notin DOMAIN options THEN ConfigOf(EmptyArgs)[key]
            ELSE IF key \in {"windowWidth", "windowHeight"}
            THEN Num(options[key])
            ELSE options[key]

\* C28: on Android, a callback with arguments leaves currentConfig equal to
\* the options of the call with the defaults filled in; the detector it
\* leaves has the six detector fields of currentConfig; the detector is
\* replaced only when one of the six fields differs from the previous config;
\* and a callback without arguments leaves config and detector as they were.
C28_Step ==
    /\ DOMAIN lastFrame'.arguments # {} =>
          IsConfigOf(currentConfig', lastFrame'.arguments)
    /\ faceDetector' = DetectorOptionsOf(currentConfig')
    /\ lastFrame'.rebuilt =>
          CoreFields(currentConfig') # CoreFields(currentConfig)
    /\ ~lastFrame'.rebuilt => faceDetector' = faceDetector
    /\ DOMAIN lastFrame'.arguments = {} =>
          (currentConfig' = currentConfig /\ faceDetector' = faceDetector)

C28_DetectorConfigCache == [][platform = "android" => C28_Step]_vars

\* The Android plugin kept its tracking detector for a call with the same
\* detector fields.
C28_Witness ==
    /\ platform = "android"
    /\ lastFrame.called
    /\ DOMAIN lastFrame.arguments # {}
    /\ ~lastFrame.rebuilt
    /\ currentConfig.trackingEnabled
    /\ faceDetector.trackingEnabled

====
